---- MODULE Spec2Model ----
(***************************************************************************)
(* Training worker of scale-ai (training/worker.py): one worker consumes   *)
(* job messages from the queue with prefetch 1, runs process_job on each   *)
(* and settles the message.  An external actor (the admin endpoint) may    *)
(* write status 'cancelled' into the training_jobs table at any moment.    *)
(*                                                                         *)
(* Every database / object-store call of process_job is one atomic step,   *)
(* so the external cancel write interleaves between any two of them.       *)
(* Each such call may also raise (store unreachable, statement failed).    *)
(***************************************************************************)
EXTENDS Integers, Sequences, FiniteSets, TLC

\* ------------------------------------------------------------------ bounds
MaxMsgs == 2          \* Spec: messages published to the queue
MaxQueueEpochs == 1   \* Spec: largest config['epochs'] of a message
MaxEpochs == 4        \* SpecTrain: largest config['epochs'] of the one message
MaxFaults == 1        \* errors raised by the stores and the trainer in one run
MaxSplit == 11        \* SpecSplit: largest candidate list, besides the one of 100
MaxSwaps == 2         \* SpecSplit: draws of one shuffle that move an element
MaxRows == 2          \* SpecFetch: rows of table drawings
MaxStrokes == 21      \* SpecScore: strokes of a drawing

\* -------------------------------------------------------- program constants
MinTrainingData == 10 \* worker.py:429  len(drawings) < 10
SplitNum == 8         \* worker.py:434  int(len(drawings) * 0.8): 0.8 = 8/10
SplitDen == 10

Jobs == {"j1"}
\* eligible drawings in the database: both sides of the size check
DrawingCounts == {MinTrainingData - 1, MinTrainingData}

NULL == [null |-> TRUE]

\* ------------------------------------------------------------------- text
\* A str is the sequence of its code points.  The handler of process_job
\* searches the lower-cased text of the exception for 'cancelled'.

\* The printable ASCII characters in the order of their code points, from 32.
\* The place of the grave accent (96), which no text here holds, is left empty.
AsciiChars ==
    <<" ", "!", "\"", "#", "$", "%", "&", "'", "(", ")", "*", "+", ",", "-", ".", "/",
      "0", "1", "2", "3", "4", "5", "6", "7", "8", "9", ":", ";", "<", "=", ">", "?",
      "@", "A", "B", "C", "D", "E", "F", "G", "H", "I", "J", "K", "L", "M", "N", "O",
      "P", "Q", "R", "S", "T", "U", "V", "W", "X", "Y", "Z", "[", "\\", "]", "^", "_",
      "" , "a", "b", "c", "d", "e", "f", "g", "h", "i", "j", "k", "l", "m", "n", "o",
      "p", "q", "r", "s", "t", "u", "v", "w", "x", "y", "z", "{", "|", "}", "~">>

\* The str of a text written character by character
Text(chars) ==
    [i \in 1..Len(chars) |->
        31 + CHOOSE k \in DOMAIN AsciiChars : AsciiChars[k] = chars[i]]

\* The case tables of str.lower(), which are those of the Unicode version
\* the interpreter was built with: 13 (CPython 3.9 and 3.10), 14 (3.11) or
\* 15 (3.12 and 3.13).  An entry <<first, last, step, delta, since>> lowers
\* first, first + step, ..., last by adding delta, from version `since` on.
LowerRanges ==
    {<<65, 90, 1, 32, 13>>, <<192, 214, 1, 32, 13>>, <<216, 222, 1, 32, 13>>,
     <<256, 302, 2, 1, 13>>, <<306, 310, 2, 1, 13>>, <<313, 327, 2, 1, 13>>,
     <<330, 374, 2, 1, 13>>, <<376, 376, 1, -121, 13>>, <<377, 381, 2, 1, 13>>,
     <<385, 385, 1, 210, 13>>, <<386, 388, 2, 1, 13>>, <<390, 390, 1, 206, 13>>,
     <<391, 391, 1, 1, 13>>, <<393, 394, 1, 205, 13>>, <<395, 395, 1, 1, 13>>,
     <<398, 398, 1, 79, 13>>, <<399, 399, 1, 202, 13>>, <<400, 400, 1, 203, 13>>,
     <<401, 401, 1, 1, 13>>, <<403, 403, 1, 205, 13>>, <<404, 404, 1, 207, 13>>,
     <<406, 406, 1, 211, 13>>, <<407, 407, 1, 209, 13>>, <<408, 408, 1, 1, 13>>,
     <<412, 412, 1, 211, 13>>, <<413, 413, 1, 213, 13>>, <<415, 415, 1, 214, 13>>,
     <<416, 420, 2, 1, 13>>, <<422, 422, 1, 218, 13>>, <<423, 423, 1, 1, 13>>,
     <<425, 425, 1, 218, 13>>, <<428, 428, 1, 1, 13>>, <<430, 430, 1, 218, 13>>,
     <<431, 431, 1, 1, 13>>, <<433, 434, 1, 217, 13>>, <<435, 437, 2, 1, 13>>,
     <<439, 439, 1, 219, 13>>, <<440, 440, 1, 1, 13>>, <<444, 444, 1, 1, 13>>,
     <<452, 452, 1, 2, 13>>, <<453, 453, 1, 1, 13>>, <<455, 455, 1, 2, 13>>,
     <<456, 456, 1, 1, 13>>, <<458, 458, 1, 2, 13>>, <<459, 475, 2, 1, 13>>,
     <<478, 494, 2, 1, 13>>, <<497, 497, 1, 2, 13>>, <<498, 500, 2, 1, 13>>,
     <<502, 502, 1, -97, 13>>, <<503, 503, 1, -56, 13>>, <<504, 542, 2, 1, 13>>,
     <<544, 544, 1, -130, 13>>, <<546, 562, 2, 1, 13>>, <<570, 570, 1, 10795, 13>>,
     <<571, 571, 1, 1, 13>>, <<573, 573, 1, -163, 13>>, <<574, 574, 1, 10792, 13>>,
     <<577, 577, 1, 1, 13>>, <<579, 579, 1, -195, 13>>, <<580, 580, 1, 69, 13>>,
     <<581, 581, 1, 71, 13>>, <<582, 590, 2, 1, 13>>, <<880, 882, 2, 1, 13>>,
     <<886, 886, 1, 1, 13>>, <<895, 895, 1, 116, 13>>, <<902, 902, 1, 38, 13>>,
     <<904, 906, 1, 37, 13>>, <<908, 908, 1, 64, 13>>, <<910, 911, 1, 63, 13>>,
     <<913, 929, 1, 32, 13>>, <<931, 939, 1, 32, 13>>, <<975, 975, 1, 8, 13>>,
     <<984, 1006, 2, 1, 13>>, <<1012, 1012, 1, -60, 13>>, <<1015, 1015, 1, 1, 13>>,
     <<1017, 1017, 1, -7, 13>>, <<1018, 1018, 1, 1, 13>>, <<1021, 1023, 1, -130, 13>>,
     <<1024, 1039, 1, 80, 13>>, <<1040, 1071, 1, 32, 13>>, <<1120, 1152, 2, 1, 13>>,
     <<1162, 1214, 2, 1, 13>>, <<1216, 1216, 1, 15, 13>>, <<1217, 1229, 2, 1, 13>>,
     <<1232, 1326, 2, 1, 13>>, <<1329, 1366, 1, 48, 13>>, <<4256, 4293, 1, 7264, 13>>,
     <<4295, 4295, 1, 7264, 13>>, <<4301, 4301, 1, 7264, 13>>, <<5024, 5103, 1, 38864, 13>>,
     <<5104, 5109, 1, 8, 13>>, <<7312, 7354, 1, -3008, 13>>, <<7357, 7359, 1, -3008, 13>>,
     <<7680, 7828, 2, 1, 13>>, <<7838, 7838, 1, -7615, 13>>, <<7840, 7934, 2, 1, 13>>,
     <<7944, 7951, 1, -8, 13>>, <<7960, 7965, 1, -8, 13>>, <<7976, 7983, 1, -8, 13>>,
     <<7992, 7999, 1, -8, 13>>, <<8008, 8013, 1, -8, 13>>, <<8025, 8031, 2, -8, 13>>,
     <<8040, 8047, 1, -8, 13>>, <<8072, 8079, 1, -8, 13>>, <<8088, 8095, 1, -8, 13>>,
     <<8104, 8111, 1, -8, 13>>, <<8120, 8121, 1, -8, 13>>, <<8122, 8123, 1, -74, 13>>,
     <<8124, 8124, 1, -9, 13>>, <<8136, 8139, 1, -86, 13>>, <<8140, 8140, 1, -9, 13>>,
     <<8152, 8153, 1, -8, 13>>, <<8154, 8155, 1, -100, 13>>, <<8168, 8169, 1, -8, 13>>,
     <<8170, 8171, 1, -112, 13>>, <<8172, 8172, 1, -7, 13>>, <<8184, 8185, 1, -128, 13>>,
     <<8186, 8187, 1, -126, 13>>, <<8188, 8188, 1, -9, 13>>, <<8486, 8486, 1, -7517, 13>>,
     <<8490, 8490, 1, -8383, 13>>, <<8491, 8491, 1, -8262, 13>>, <<8498, 8498, 1, 28, 13>>,
     <<8544, 8559, 1, 16, 13>>, <<8579, 8579, 1, 1, 13>>, <<9398, 9423, 1, 26, 13>>,
     <<11264, 11310, 1, 48, 13>>, <<11311, 11311, 1, 48, 14>>, <<11360, 11360, 1, 1, 13>>,
     <<11362, 11362, 1, -10743, 13>>, <<11363, 11363, 1, -3814, 13>>,
     <<11364, 11364, 1, -10727, 13>>, <<11367, 11371, 2, 1, 13>>,
     <<11373, 11373, 1, -10780, 13>>, <<11374, 11374, 1, -10749, 13>>,
     <<11375, 11375, 1, -10783, 13>>, <<11376, 11376, 1, -10782, 13>>,
     <<11378, 11378, 1, 1, 13>>, <<11381, 11381, 1, 1, 13>>, <<11390, 11391, 1, -10815, 13>>,
     <<11392, 11490, 2, 1, 13>>, <<11499, 11501, 2, 1, 13>>, <<11506, 11506, 1, 1, 13>>,
     <<42560, 42604, 2, 1, 13>>, <<42624, 42650, 2, 1, 13>>, <<42786, 42798, 2, 1, 13>>,
     <<42802, 42862, 2, 1, 13>>, <<42873, 42875, 2, 1, 13>>, <<42877, 42877, 1, -35332, 13>>,
     <<42878, 42886, 2, 1, 13>>, <<42891, 42891, 1, 1, 13>>, <<42893, 42893, 1, -42280, 13>>,
     <<42896, 42898, 2, 1, 13>>, <<42902, 42920, 2, 1, 13>>, <<42922, 42922, 1, -42308, 13>>,
     <<42923, 42923, 1, -42319, 13>>, <<42924, 42924, 1, -42315, 13>>,
     <<42925, 42925, 1, -42305, 13>>, <<42926, 42926, 1, -42308, 13>>,
     <<42928, 42928, 1, -42258, 13>>, <<42929, 42929, 1, -42282, 13>>,
     <<42930, 42930, 1, -42261, 13>>, <<42931, 42931, 1, 928, 13>>, <<42932, 42942, 2, 1, 13>>,
     <<42944, 42944, 1, 1, 14>>, <<42946, 42946, 1, 1, 13>>, <<42948, 42948, 1, -48, 13>>,
     <<42949, 42949, 1, -42307, 13>>, <<42950, 42950, 1, -35384, 13>>,
     <<42951, 42953, 2, 1, 13>>, <<42960, 42960, 1, 1, 14>>, <<42966, 42968, 2, 1, 14>>,
     <<42997, 42997, 1, 1, 13>>, <<65313, 65338, 1, 32, 13>>, <<66560, 66599, 1, 40, 13>>,
     <<66736, 66771, 1, 40, 13>>, <<66928, 66938, 1, 39, 14>>, <<66940, 66954, 1, 39, 14>>,
     <<66956, 66962, 1, 39, 14>>, <<66964, 66965, 1, 39, 14>>, <<68736, 68786, 1, 64, 13>>,
     <<71840, 71871, 1, 32, 13>>, <<93760, 93791, 1, 32, 13>>, <<125184, 125217, 1, 34, 13>>}

\* <<first, last, since>>: the cased characters that are not case-ignorable
CasedRanges ==
    {<<65, 90, 13>>, <<97, 122, 13>>, <<170, 170, 13>>, <<181, 181, 13>>, <<186, 186, 13>>,
     <<192, 214, 13>>, <<216, 246, 13>>, <<248, 442, 13>>, <<444, 447, 13>>, <<452, 659, 13>>,
     <<661, 687, 13>>, <<880, 883, 13>>, <<886, 887, 13>>, <<891, 893, 13>>, <<895, 895, 13>>,
     <<902, 902, 13>>, <<904, 906, 13>>, <<908, 908, 13>>, <<910, 929, 13>>, <<931, 1013, 13>>,
     <<1015, 1153, 13>>, <<1162, 1327, 13>>, <<1329, 1366, 13>>, <<1376, 1416, 13>>,
     <<4256, 4293, 13>>, <<4295, 4295, 13>>, <<4301, 4301, 13>>, <<4304, 4346, 13>>,
     <<4349, 4351, 13>>, <<5024, 5109, 13>>, <<5112, 5117, 13>>, <<7296, 7304, 13>>,
     <<7312, 7354, 13>>, <<7357, 7359, 13>>, <<7424, 7467, 13>>, <<7531, 7543, 13>>,
     <<7545, 7578, 13>>, <<7680, 7957, 13>>, <<7960, 7965, 13>>, <<7968, 8005, 13>>,
     <<8008, 8013, 13>>, <<8016, 8023, 13>>, <<8025, 8025, 13>>, <<8027, 8027, 13>>,
     <<8029, 8029, 13>>, <<8031, 8061, 13>>, <<8064, 8116, 13>>, <<8118, 8124, 13>>,
     <<8126, 8126, 13>>, <<8130, 8132, 13>>, <<8134, 8140, 13>>, <<8144, 8147, 13>>,
     <<8150, 8155, 13>>, <<8160, 8172, 13>>, <<8178, 8180, 13>>, <<8182, 8188, 13>>,
     <<8450, 8450, 13>>, <<8455, 8455, 13>>, <<8458, 8467, 13>>, <<8469, 8469, 13>>,
     <<8473, 8477, 13>>, <<8484, 8484, 13>>, <<8486, 8486, 13>>, <<8488, 8488, 13>>,
     <<8490, 8493, 13>>, <<8495, 8500, 13>>, <<8505, 8505, 13>>, <<8508, 8511, 13>>,
     <<8517, 8521, 13>>, <<8526, 8526, 13>>, <<8544, 8575, 13>>, <<8579, 8580, 13>>,
     <<9398, 9449, 13>>, <<11264, 11310, 13>>, <<11311, 11311, 14>>, <<11312, 11358, 13>>,
     <<11359, 11359, 14>>, <<11360, 11387, 13>>, <<11390, 11492, 13>>, <<11499, 11502, 13>>,
     <<11506, 11507, 13>>, <<11520, 11557, 13>>, <<11559, 11559, 13>>, <<11565, 11565, 13>>,
     <<42560, 42605, 13>>, <<42624, 42651, 13>>, <<42786, 42863, 13>>, <<42865, 42887, 13>>,
     <<42891, 42894, 13>>, <<42896, 42943, 13>>, <<42944, 42945, 14>>, <<42946, 42954, 13>>,
     <<42960, 42961, 14>>, <<42963, 42963, 14>>, <<42965, 42969, 14>>, <<42997, 42998, 13>>,
     <<43002, 43002, 13>>, <<43824, 43866, 13>>, <<43872, 43880, 13>>, <<43888, 43967, 13>>,
     <<64256, 64262, 13>>, <<64275, 64279, 13>>, <<65313, 65338, 13>>, <<65345, 65370, 13>>,
     <<66560, 66639, 13>>, <<66736, 66771, 13>>, <<66776, 66811, 13>>, <<66928, 66938, 14>>,
     <<66940, 66954, 14>>, <<66956, 66962, 14>>, <<66964, 66965, 14>>, <<66967, 66977, 14>>,
     <<66979, 66993, 14>>, <<66995, 67001, 14>>, <<67003, 67004, 14>>, <<68736, 68786, 13>>,
     <<68800, 68850, 13>>, <<71840, 71903, 13>>, <<93760, 93823, 13>>, <<119808, 119892, 13>>,
     <<119894, 119964, 13>>, <<119966, 119967, 13>>, <<119970, 119970, 13>>,
     <<119973, 119974, 13>>, <<119977, 119980, 13>>, <<119982, 119993, 13>>,
     <<119995, 119995, 13>>, <<119997, 120003, 13>>, <<120005, 120069, 13>>,
     <<120071, 120074, 13>>, <<120077, 120084, 13>>, <<120086, 120092, 13>>,
     <<120094, 120121, 13>>, <<120123, 120126, 13>>, <<120128, 120132, 13>>,
     <<120134, 120134, 13>>, <<120138, 120144, 13>>, <<120146, 120485, 13>>,
     <<120488, 120512, 13>>, <<120514, 120538, 13>>, <<120540, 120570, 13>>,
     <<120572, 120596, 13>>, <<120598, 120628, 13>>, <<120630, 120654, 13>>,
     <<120656, 120686, 13>>, <<120688, 120712, 13>>, <<120714, 120744, 13>>,
     <<120746, 120770, 13>>, <<120772, 120779, 13>>, <<122624, 122633, 14>>,
     <<122635, 122654, 14>>, <<122661, 122666, 15>>, <<125184, 125251, 13>>,
     <<127280, 127305, 13>>, <<127312, 127337, 13>>, <<127344, 127369, 13>>}

\* <<first, last, since>>: the case-ignorable characters
CaseIgnorableRanges ==
    {<<39, 39, 13>>, <<46, 46, 13>>, <<58, 58, 13>>, <<94, 94, 13>>, <<96, 96, 13>>,
     <<168, 168, 13>>, <<173, 173, 13>>, <<175, 175, 13>>, <<180, 180, 13>>, <<183, 184, 13>>,
     <<688, 879, 13>>, <<884, 885, 13>>, <<890, 890, 13>>, <<900, 901, 13>>, <<903, 903, 13>>,
     <<1155, 1161, 13>>, <<1369, 1369, 13>>, <<1375, 1375, 13>>, <<1425, 1469, 13>>,
     <<1471, 1471, 13>>, <<1473, 1474, 13>>, <<1476, 1477, 13>>, <<1479, 1479, 13>>,
     <<1524, 1524, 13>>, <<1536, 1541, 13>>, <<1552, 1562, 13>>, <<1564, 1564, 13>>,
     <<1600, 1600, 13>>, <<1611, 1631, 13>>, <<1648, 1648, 13>>, <<1750, 1757, 13>>,
     <<1759, 1768, 13>>, <<1770, 1773, 13>>, <<1807, 1807, 13>>, <<1809, 1809, 13>>,
     <<1840, 1866, 13>>, <<1958, 1968, 13>>, <<2027, 2037, 13>>, <<2042, 2042, 13>>,
     <<2045, 2045, 13>>, <<2070, 2093, 13>>, <<2137, 2139, 13>>, <<2184, 2184, 14>>,
     <<2192, 2193, 14>>, <<2200, 2207, 14>>, <<2249, 2258, 14>>, <<2259, 2306, 13>>,
     <<2362, 2362, 13>>, <<2364, 2364, 13>>, <<2369, 2376, 13>>, <<2381, 2381, 13>>,
     <<2385, 2391, 13>>, <<2402, 2403, 13>>, <<2417, 2417, 13>>, <<2433, 2433, 13>>,
     <<2492, 2492, 13>>, <<2497, 2500, 13>>, <<2509, 2509, 13>>, <<2530, 2531, 13>>,
     <<2558, 2558, 13>>, <<2561, 2562, 13>>, <<2620, 2620, 13>>, <<2625, 2626, 13>>,
     <<2631, 2632, 13>>, <<2635, 2637, 13>>, <<2641, 2641, 13>>, <<2672, 2673, 13>>,
     <<2677, 2677, 13>>, <<2689, 2690, 13>>, <<2748, 2748, 13>>, <<2753, 2757, 13>>,
     <<2759, 2760, 13>>, <<2765, 2765, 13>>, <<2786, 2787, 13>>, <<2810, 2815, 13>>,
     <<2817, 2817, 13>>, <<2876, 2876, 13>>, <<2879, 2879, 13>>, <<2881, 2884, 13>>,
     <<2893, 2893, 13>>, <<2901, 2902, 13>>, <<2914, 2915, 13>>, <<2946, 2946, 13>>,
     <<3008, 3008, 13>>, <<3021, 3021, 13>>, <<3072, 3072, 13>>, <<3076, 3076, 13>>,
     <<3132, 3132, 14>>, <<3134, 3136, 13>>, <<3142, 3144, 13>>, <<3146, 3149, 13>>,
     <<3157, 3158, 13>>, <<3170, 3171, 13>>, <<3201, 3201, 13>>, <<3260, 3260, 13>>,
     <<3263, 3263, 13>>, <<3270, 3270, 13>>, <<3276, 3277, 13>>, <<3298, 3299, 13>>,
     <<3328, 3329, 13>>, <<3387, 3388, 13>>, <<3393, 3396, 13>>, <<3405, 3405, 13>>,
     <<3426, 3427, 13>>, <<3457, 3457, 13>>, <<3530, 3530, 13>>, <<3538, 3540, 13>>,
     <<3542, 3542, 13>>, <<3633, 3633, 13>>, <<3636, 3642, 13>>, <<3654, 3662, 13>>,
     <<3761, 3761, 13>>, <<3764, 3772, 13>>, <<3782, 3782, 13>>, <<3784, 3789, 13>>,
     <<3790, 3790, 15>>, <<3864, 3865, 13>>, <<3893, 3893, 13>>, <<3895, 3895, 13>>,
     <<3897, 3897, 13>>, <<3953, 3966, 13>>, <<3968, 3972, 13>>, <<3974, 3975, 13>>,
     <<3981, 3991, 13>>, <<3993, 4028, 13>>, <<4038, 4038, 13>>, <<4141, 4144, 13>>,
     <<4146, 4151, 13>>, <<4153, 4154, 13>>, <<4157, 4158, 13>>, <<4184, 4185, 13>>,
     <<4190, 4192, 13>>, <<4209, 4212, 13>>, <<4226, 4226, 13>>, <<4229, 4230, 13>>,
     <<4237, 4237, 13>>, <<4253, 4253, 13>>, <<4348, 4348, 13>>, <<4957, 4959, 13>>,
     <<5906, 5908, 13>>, <<5938, 5939, 13>>, <<5970, 5971, 13>>, <<6002, 6003, 13>>,
     <<6068, 6069, 13>>, <<6071, 6077, 13>>, <<6086, 6086, 13>>, <<6089, 6099, 13>>,
     <<6103, 6103, 13>>, <<6109, 6109, 13>>, <<6155, 6158, 13>>, <<6159, 6159, 14>>,
     <<6211, 6211, 13>>, <<6277, 6278, 13>>, <<6313, 6313, 13>>, <<6432, 6434, 13>>,
     <<6439, 6440, 13>>, <<6450, 6450, 13>>, <<6457, 6459, 13>>, <<6679, 6680, 13>>,
     <<6683, 6683, 13>>, <<6742, 6742, 13>>, <<6744, 6750, 13>>, <<6752, 6752, 13>>,
     <<6754, 6754, 13>>, <<6757, 6764, 13>>, <<6771, 6780, 13>>, <<6783, 6783, 13>>,
     <<6823, 6823, 13>>, <<6832, 6848, 13>>, <<6849, 6862, 14>>, <<6912, 6915, 13>>,
     <<6964, 6964, 13>>, <<6966, 6970, 13>>, <<6972, 6972, 13>>, <<6978, 6978, 13>>,
     <<7019, 7027, 13>>, <<7040, 7041, 13>>, <<7074, 7077, 13>>, <<7080, 7081, 13>>,
     <<7083, 7085, 13>>, <<7142, 7142, 13>>, <<7144, 7145, 13>>, <<7149, 7149, 13>>,
     <<7151, 7153, 13>>, <<7212, 7219, 13>>, <<7222, 7223, 13>>, <<7288, 7293, 13>>,
     <<7376, 7378, 13>>, <<7380, 7392, 13>>, <<7394, 7400, 13>>, <<7405, 7405, 13>>,
     <<7412, 7412, 13>>, <<7416, 7417, 13>>, <<7468, 7530, 13>>, <<7544, 7544, 13>>,
     <<7579, 7673, 13>>, <<7674, 7674, 14>>, <<7675, 7679, 13>>, <<8125, 8125, 13>>,
     <<8127, 8129, 13>>, <<8141, 8143, 13>>, <<8157, 8159, 13>>, <<8173, 8175, 13>>,
     <<8189, 8190, 13>>, <<8203, 8207, 13>>, <<8216, 8217, 13>>, <<8228, 8228, 13>>,
     <<8231, 8231, 13>>, <<8234, 8238, 13>>, <<8288, 8292, 13>>, <<8294, 8303, 13>>,
     <<8305, 8305, 13>>, <<8319, 8319, 13>>, <<8336, 8348, 13>>, <<8400, 8432, 13>>,
     <<11388, 11389, 13>>, <<11503, 11505, 13>>, <<11631, 11631, 13>>, <<11647, 11647, 13>>,
     <<11744, 11775, 13>>, <<11823, 11823, 13>>, <<12293, 12293, 13>>, <<12330, 12333, 13>>,
     <<12337, 12341, 13>>, <<12347, 12347, 13>>, <<12441, 12446, 13>>, <<12540, 12542, 13>>,
     <<40981, 40981, 13>>, <<42232, 42237, 13>>, <<42508, 42508, 13>>, <<42607, 42610, 13>>,
     <<42612, 42621, 13>>, <<42623, 42623, 13>>, <<42652, 42655, 13>>, <<42736, 42737, 13>>,
     <<42752, 42785, 13>>, <<42864, 42864, 13>>, <<42888, 42890, 13>>, <<42994, 42996, 14>>,
     <<43000, 43001, 13>>, <<43010, 43010, 13>>, <<43014, 43014, 13>>, <<43019, 43019, 13>>,
     <<43045, 43046, 13>>, <<43052, 43052, 13>>, <<43204, 43205, 13>>, <<43232, 43249, 13>>,
     <<43263, 43263, 13>>, <<43302, 43309, 13>>, <<43335, 43345, 13>>, <<43392, 43394, 13>>,
     <<43443, 43443, 13>>, <<43446, 43449, 13>>, <<43452, 43453, 13>>, <<43471, 43471, 13>>,
     <<43493, 43494, 13>>, <<43561, 43566, 13>>, <<43569, 43570, 13>>, <<43573, 43574, 13>>,
     <<43587, 43587, 13>>, <<43596, 43596, 13>>, <<43632, 43632, 13>>, <<43644, 43644, 13>>,
     <<43696, 43696, 13>>, <<43698, 43700, 13>>, <<43703, 43704, 13>>, <<43710, 43711, 13>>,
     <<43713, 43713, 13>>, <<43741, 43741, 13>>, <<43756, 43757, 13>>, <<43763, 43764, 13>>,
     <<43766, 43766, 13>>, <<43867, 43871, 13>>, <<43881, 43883, 13>>, <<44005, 44005, 13>>,
     <<44008, 44008, 13>>, <<44013, 44013, 13>>, <<64286, 64286, 13>>, <<64434, 64449, 13>>,
     <<64450, 64450, 14>>, <<65024, 65039, 13>>, <<65043, 65043, 13>>, <<65056, 65071, 13>>,
     <<65106, 65106, 13>>, <<65109, 65109, 13>>, <<65279, 65279, 13>>, <<65287, 65287, 13>>,
     <<65294, 65294, 13>>, <<65306, 65306, 13>>, <<65342, 65342, 13>>, <<65344, 65344, 13>>,
     <<65392, 65392, 13>>, <<65438, 65439, 13>>, <<65507, 65507, 13>>, <<65529, 65531, 13>>,
     <<66045, 66045, 13>>, <<66272, 66272, 13>>, <<66422, 66426, 13>>, <<67456, 67461, 14>>,
     <<67463, 67504, 14>>, <<67506, 67514, 14>>, <<68097, 68099, 13>>, <<68101, 68102, 13>>,
     <<68108, 68111, 13>>, <<68152, 68154, 13>>, <<68159, 68159, 13>>, <<68325, 68326, 13>>,
     <<68900, 68903, 13>>, <<69291, 69292, 13>>, <<69373, 69375, 15>>, <<69446, 69456, 13>>,
     <<69506, 69509, 14>>, <<69633, 69633, 13>>, <<69688, 69702, 13>>, <<69744, 69744, 14>>,
     <<69747, 69748, 14>>, <<69759, 69761, 13>>, <<69811, 69814, 13>>, <<69817, 69818, 13>>,
     <<69821, 69821, 13>>, <<69826, 69826, 14>>, <<69837, 69837, 13>>, <<69888, 69890, 13>>,
     <<69927, 69931, 13>>, <<69933, 69940, 13>>, <<70003, 70003, 13>>, <<70016, 70017, 13>>,
     <<70070, 70078, 13>>, <<70089, 70092, 13>>, <<70095, 70095, 13>>, <<70191, 70193, 13>>,
     <<70196, 70196, 13>>, <<70198, 70199, 13>>, <<70206, 70206, 13>>, <<70209, 70209, 15>>,
     <<70367, 70367, 13>>, <<70371, 70378, 13>>, <<70400, 70401, 13>>, <<70459, 70460, 13>>,
     <<70464, 70464, 13>>, <<70502, 70508, 13>>, <<70512, 70516, 13>>, <<70712, 70719, 13>>,
     <<70722, 70724, 13>>, <<70726, 70726, 13>>, <<70750, 70750, 13>>, <<70835, 70840, 13>>,
     <<70842, 70842, 13>>, <<70847, 70848, 13>>, <<70850, 70851, 13>>, <<71090, 71093, 13>>,
     <<71100, 71101, 13>>, <<71103, 71104, 13>>, <<71132, 71133, 13>>, <<71219, 71226, 13>>,
     <<71229, 71229, 13>>, <<71231, 71232, 13>>, <<71339, 71339, 13>>, <<71341, 71341, 13>>,
     <<71344, 71349, 13>>, <<71351, 71351, 13>>, <<71453, 71455, 13>>, <<71458, 71461, 13>>,
     <<71463, 71467, 13>>, <<71727, 71735, 13>>, <<71737, 71738, 13>>, <<71995, 71996, 13>>,
     <<71998, 71998, 13>>, <<72003, 72003, 13>>, <<72148, 72151, 13>>, <<72154, 72155, 13>>,
     <<72160, 72160, 13>>, <<72193, 72202, 13>>, <<72243, 72248, 13>>, <<72251, 72254, 13>>,
     <<72263, 72263, 13>>, <<72273, 72278, 13>>, <<72281, 72283, 13>>, <<72330, 72342, 13>>,
     <<72344, 72345, 13>>, <<72752, 72758, 13>>, <<72760, 72765, 13>>, <<72767, 72767, 13>>,
     <<72850, 72871, 13>>, <<72874, 72880, 13>>, <<72882, 72883, 13>>, <<72885, 72886, 13>>,
     <<73009, 73014, 13>>, <<73018, 73018, 13>>, <<73020, 73021, 13>>, <<73023, 73029, 13>>,
     <<73031, 73031, 13>>, <<73104, 73105, 13>>, <<73109, 73109, 13>>, <<73111, 73111, 13>>,
     <<73459, 73460, 13>>, <<73472, 73473, 15>>, <<73526, 73530, 15>>, <<73536, 73536, 15>>,
     <<73538, 73538, 15>>, <<78896, 78904, 13>>, <<78905, 78912, 15>>, <<78919, 78933, 15>>,
     <<92912, 92916, 13>>, <<92976, 92982, 13>>, <<92992, 92995, 13>>, <<94031, 94031, 13>>,
     <<94095, 94111, 13>>, <<94176, 94177, 13>>, <<94179, 94180, 13>>, <<110576, 110579, 14>>,
     <<110581, 110587, 14>>, <<110589, 110590, 14>>, <<113821, 113822, 13>>,
     <<113824, 113827, 13>>, <<118528, 118573, 14>>, <<118576, 118598, 14>>,
     <<119143, 119145, 13>>, <<119155, 119170, 13>>, <<119173, 119179, 13>>,
     <<119210, 119213, 13>>, <<119362, 119364, 13>>, <<121344, 121398, 13>>,
     <<121403, 121452, 13>>, <<121461, 121461, 13>>, <<121476, 121476, 13>>,
     <<121499, 121503, 13>>, <<121505, 121519, 13>>, <<122880, 122886, 13>>,
     <<122888, 122904, 13>>, <<122907, 122913, 13>>, <<122915, 122916, 13>>,
     <<122918, 122922, 13>>, <<122928, 122989, 15>>, <<123023, 123023, 15>>,
     <<123184, 123197, 13>>, <<123566, 123566, 14>>, <<123628, 123631, 13>>,
     <<124139, 124143, 15>>, <<125136, 125142, 13>>, <<125252, 125259, 13>>,
     <<127995, 127999, 13>>, <<917505, 917505, 13>>, <<917536, 917631, 13>>,
     <<917760, 917999, 13>>}

\* The case table by block of 256 code points: the entries that reach into
\* block b (the last entry ends in block 489)
LowerBlocks ==
    [b \in 0..489 |-> {r \in LowerRanges : r[1] \div 256 <= b /\ b <= r[2] \div 256}]

\* str.lower() on one character standing alone: the code points it becomes
\* (two of them for U+0130)
LowerChar(c, unicode) ==
    LET hit == IF c \div 256 \in DOMAIN LowerBlocks
               THEN {r \in LowerBlocks[c \div 256] :
                        /\ r[1] <= c /\ c <= r[2] /\ (c - r[1]) % r[3] = 0
                        /\ r[5] <= unicode}
               ELSE {}
    IN  IF c = 304 THEN <<105, 775>>
        ELSE IF hit = {} THEN <<c>>
        ELSE <<c + (CHOOSE r \in hit : TRUE)[4]>>

\* str.lower().  A capital sigma (931) becomes the final sigma (962) when
\* the nearest character before it that is not case-ignorable is cased and
\* the nearest such character after it, if there is one, is not; otherwise
\* the small sigma (963).  U+1734 (5940) was a nonspacing mark, and so
\* case-ignorable, until Unicode 14 made it a spacing mark.
Lower(s, unicode) ==
    LET Ignorable(c) ==
            \/ \E r \in CaseIgnorableRanges : r[1] <= c /\ c <= r[2] /\ r[3] <= unicode
            \/ c = 5940 /\ unicode < 14
        Cased(c) == \E r \in CasedRanges : r[1] <= c /\ c <= r[2] /\ r[3] <= unicode
        Before(i) == {j \in 1..(i - 1) : ~Ignorable(s[j])}
        After(i) == {j \in (i + 1)..Len(s) : ~Ignorable(s[j])}
        FinalSigma(i) ==
            /\ Before(i) # {}
            /\ Cased(s[CHOOSE j \in Before(i) : \A k \in Before(i) : k <= j])
            /\ \/ After(i) = {}
               \/ ~Cased(s[CHOOSE j \in After(i) : \A k \in After(i) : j <= k])
        Piece(i) == IF s[i] = 931 THEN <<IF FinalSigma(i) THEN 962 ELSE 963>>
                    ELSE LowerChar(s[i], unicode)
        RECURSIVE UpTo(_)
        UpTo(i) == IF i = 0 THEN <<>> ELSE UpTo(i - 1) \o Piece(i)
    IN  UpTo(Len(s))

\* sub in s
Contains(sub, s) ==
    \E i \in 1..(Len(s) - Len(sub) + 1) : SubSeq(s, i, i + Len(sub) - 1) = sub

DigitChars == <<"0","1","2","3","4","5","6","7","8","9">>

\* f"{n}" of a non-negative integer
RECURSIVE IntStr(_)
IntStr(n) == IF n < 10 THEN <<DigitChars[n + 1]>>
             ELSE IntStr(n \div 10) \o <<DigitChars[(n % 10) + 1]>>

\* 'cancelled'
CancelledWord == Text(<<"c","a","n","c","e","l","l","e","d">>)

\* "Training cancelled by user"  (train_model, cancellation probe)
TrainingCancelledText ==
    Text(<<"T","r","a","i","n","i","n","g"," ">>) \o CancelledWord \o
    Text(<<" ","b","y"," ","u","s","e","r">>)

\* f"Not enough training data: {len(drawings)} drawings"
NotEnoughPrefix ==
    Text(<<"N","o","t"," ","e","n","o","u","g","h"," ","t","r","a","i","n","i","n","g",
           " ","d","a","t","a",":"," ">>)
NotEnoughText(n) ==
    NotEnoughPrefix \o Text(IntStr(n) \o <<" ","d","r","a","w","i","n","g","s">>)

\* str(IndexError) of history['train_loss'][-1] on an empty list
IndexErrorText ==
    Text(<<"l","i","s","t"," ","i","n","d","e","x"," ","o","u","t"," ","o","f"," ",
           "r","a","n","g","e">>)

\* Texts of the errors the stores and the trainer may raise.  The second one
\* carries the word the handler searches for, in mixed case.
StoreDownText == Text(<<"t","i","m","e","o","u","t">>)
OpCancelledText == Text(<<"O","p"," ","C","a","n","c","e","l","l","e","d">>)
FaultTexts == {StoreDownText, OpCancelledText}

\* ------------------------------------------------------------- messages
\* A message body: either not JSON at all, or a JSON object.
DefaultEpochs == 10   \* worker.py:225  config.get('epochs', 10)
\* Faulty variant: the broker may have two deliveries unsettled
PrefetchCountTwo == 1 + 1
PrefetchCount == 1    \* worker.py:509  channel.basic_qos(prefetch_count=1)

JobMessage(j, n) == [valid_json |-> TRUE,
                     obj |-> [jobId |-> j, config |-> [epochs |-> n]]]
NoJobIdMessage == [valid_json |-> TRUE, obj |-> [config |-> [epochs |-> 1]]]
NotJsonMessage == [valid_json |-> FALSE]
\* The messages of a run: a job's messages all carry the job's config.
Messages(n) == {JobMessage(j, n) : j \in Jobs} \cup {NoJobIdMessage, NotJsonMessage}

RECURSIVE SeqsUpTo(_, _)
SeqsUpTo(S, n) ==
    IF n = 0 THEN {<<>>}
    ELSE LET shorter == SeqsUpTo(S, n - 1)
         IN  shorter \cup {Append(q, m) : q \in {x \in shorter : Len(x) = n - 1}, m \in S}

\* dict.get(key, default)
DictGet(d, key, default) == IF key \in DOMAIN d THEN d[key] ELSE default

\* Faulty variant: an object without the key is taken for a job
MessageRaisesJsonOnly(m) == ~m.valid_json

\* json.loads(body) ; message['jobId'] : raises on a body that is not JSON
\* and on an object without the key
MessageRaises(m) == ~m.valid_json \/ "jobId" \notin DOMAIN m.obj

ConfigEpochs(config) == DictGet(config, "epochs", DefaultEpochs)

\* ---------------------------------------------------------- StatusStore
Now == [now |-> TRUE]
JsonDumps(v) == [json |-> v]
Str(chars) == [text |-> chars]

PendingJob == [status |-> "pending", started_at |-> NULL, completed_at |-> NULL,
               progress |-> NULL, metrics |-> NULL, model_path |-> NULL,
               error_message |-> NULL]

Terminal == {"completed", "failed", "cancelled"}

\* Python's truth value of an optional dict: None and {} are false
TruthyDict(d) == d # NULL /\ DOMAIN d # {}

\* update_job_status: the three UPDATE statements, chosen by the status
UpdateJobStatus(st, job_id, status, metrics_arg, model_path_arg, error_message_arg, progress_arg) ==
    IF job_id \notin DOMAIN st THEN st
    ELSE IF status = "running" THEN
        IF TruthyDict(progress_arg)
        THEN [st EXCEPT ![job_id].status = status,
                        ![job_id].started_at = Now,
                        ![job_id].progress = JsonDumps(progress_arg)]
        ELSE [st EXCEPT ![job_id].status = status,
                        ![job_id].started_at = Now]
    ELSE IF status \in {"completed", "failed", "cancelled"} THEN
        [st EXCEPT ![job_id].status = status,
                   ![job_id].completed_at = Now,
                   ![job_id].metrics = IF TruthyDict(metrics_arg) THEN JsonDumps(metrics_arg) ELSE NULL,
                   ![job_id].model_path = model_path_arg,
                   ![job_id].error_message = error_message_arg]
    ELSE [st EXCEPT ![job_id].status = status]

\* update_job_progress
UpdateJobProgress(st, job_id, progress_arg) ==
    IF job_id \notin DOMAIN st THEN st
    ELSE [st EXCEPT ![job_id].progress = JsonDumps(progress_arg)]

\* Faulty variant: the status read never reports a cancellation
CheckJobCancelledNever(st, job_id) == FALSE

\* check_job_cancelled
CheckJobCancelled(st, job_id) ==
    job_id \in DOMAIN st /\ st[job_id].status = "cancelled"

\* ----------------------------------------------------- process_job helpers
PhaseProgress(phase, current, config) ==
    [phase |-> phase, current_epoch |-> current, total_epochs |-> ConfigEpochs(config)]

\* Faulty variant: the size check is off by one
NotEnoughDataOffByOne(n) == n <= MinTrainingData

\* len(drawings) < 10
NotEnoughData(n) == n < MinTrainingData

\* split_idx = int(len(drawings) * 0.8)
SplitIdx(n) == (n * SplitNum) \div SplitDen
ValSize(n) == n - SplitIdx(n)

\* The interpreter that runs the program, which src/ does not pin: CPython
\* 3.9 or 3.10, 3.11, 3.12 or 3.13.  They differ here in the Unicode version
\* of str.lower() and in the builtin sum(), which adds doubles from the left
\* up to 3.11 and with compensation from 3.12 on.
Pythons ==
    {[unicode |-> 13, compensated |-> FALSE],
     [unicode |-> 14, compensated |-> FALSE],
     [unicode |-> 15, compensated |-> TRUE]}

VARIABLE python       \* the interpreter of this run, one of Pythons

\* Faulty variant: the handler takes no error for a cancellation
IsCancellationNever(error_msg) == FALSE

\* 'cancelled' in error_msg.lower()
IsCancellation(error_msg) ==
    \E lowered \in {Lower(error_msg, python.unicode)} : Contains(CancelledWord, lowered)

\* f"{job_id}.pt"
ObjectName(job_id) == [stem |-> job_id, ext |-> "pt"]

\* -------------------------------------------------- binary floating point
\* The doubles of the worker and of quality.py: non-negative numbers below
\* 2^18 (the limbs leave one more bit for the sums inside an operation),
\* each operation rounded to 53 significant bits.  A number is held
\* exactly in four limbs of 24 bits as long as it is a multiple of 2^-84:
\* value = (a * 2^72 + b * 2^48 + c * 2^24 + d) / 2^84.  Every double from
\* 2^-31 on is such a number, and so is every smaller one whose last
\* significant bit is 2^-84 or higher.  An operation is computed exactly,
\* down to 2^-84 and with a note of whether anything lies below, and then
\* rounded once: it gives the double the code computes whenever that double
\* is zero or at least 2^-31.
Limb == 16777216
IntUnit == 4096
Mantissa == 53
FracBits == 84
IntBits == 19

F(a, b, c, d) == [a |-> a, b |-> b, c |-> c, d |-> d]

\* Carries (or borrows) moved up, so that b, c and d are limbs again
Norm(a, b, c, d) ==
    LET c0 == c + (d \div Limb)
        b0 == b + (c0 \div Limb)
    IN  F(a + (b0 \div Limb), b0 % Limb, c0 % Limb, d % Limb)

\* Number of binary digits of x < 2^31
BitLen(x) == CHOOSE k \in 0..31 : (k = 31 \/ x < 2 ^ (k)) /\ (k = 0 \/ x >= 2 ^ (k - 1))

Bits(x) ==
    IF x.a > 0 THEN 72 + BitLen(x.a)
    ELSE IF x.b > 0 THEN 48 + BitLen(x.b)
    ELSE IF x.c > 0 THEN 24 + BitLen(x.c) ELSE BitLen(x.d)

\* Round to nearest, ties to even, at 53 significant bits: the rounding of
\* every arithmetic operation on doubles.  x is the exact result down to
\* 2^-84 and `cut` says that the exact result has something below 2^-84.
\* The bits below the 53 kept end in limb d, c or b.
Round53(x, cut) ==
    LET Cut(j, h, limb, above, low) ==
            LET halfbit == low \div 2 ^ (h)
                below == \/ low % 2 ^ (h) # 0
                         \/ (j >= 1 /\ x.d # 0)
                         \/ (j >= 2 /\ x.c # 0)
                         \/ cut
                odd == IF h + 1 < 24 THEN (limb \div 2 ^ (h + 1)) % 2 = 1
                       ELSE above % 2 = 1
                up == IF halfbit = 1 /\ (below \/ odd) THEN 2 ^ (h + 1) ELSE 0
            IN  IF j = 0 THEN Norm(x.a, x.b, x.c, x.d - low + up)
                ELSE IF j = 1 THEN Norm(x.a, x.b, x.c - low + up, 0)
                ELSE Norm(x.a, x.b - low + up, 0, 0)
        At(j, h, limb, above) == Cut(j, h, limb, above, limb % 2 ^ (h + 1))
        Drop(s) ==
            IF s <= 0 THEN x
            ELSE At((s - 1) \div 24, (s - 1) % 24,
                    IF s <= 24 THEN x.d ELSE IF s <= 48 THEN x.c ELSE x.b,
                    IF s <= 24 THEN x.c ELSE IF s <= 48 THEN x.b ELSE x.a)
    IN  Drop(Bits(x) - Mantissa)

Zero == F(0, 0, 0, 0)
FromInt(n) == F(n * IntUnit, 0, 0, 0)

\* Exact product with a small integer
MulSmall(x, k) == Norm(x.a * k, x.b * k, x.c * k, x.d * k)

\* Exact sum and difference (for x >= y), twice x plus one bit
Plus(x, y) == Norm(x.a + y.a, x.b + y.b, x.c + y.c, x.d + y.d)
Minus(x, y) == Norm(x.a - y.a, x.b - y.b, x.c - y.c, x.d - y.d)
Twice(x, bit) == Norm(2 * x.a, 2 * x.b, 2 * x.c, 2 * x.d + bit)

\* Bit i of the numerator of x
BitAt(x, i) ==
    IF i >= 72 THEN (x.a \div 2 ^ (i - 72)) % 2
    ELSE IF i >= 48 THEN (x.b \div 2 ^ (i - 48)) % 2
    ELSE IF i >= 24 THEN (x.c \div 2 ^ (i - 24)) % 2
    ELSE (x.d \div 2 ^ (i)) % 2

\* x >= y
FGe(x, y) ==
    \/ x.a > y.a
    \/ x.a = y.a /\ x.b > y.b
    \/ x.a = y.a /\ x.b = y.b /\ x.c > y.c
    \/ x.a = y.a /\ x.b = y.b /\ x.c = y.c /\ x.d >= y.d
FLt(x, y) == ~FGe(x, y)
FGt(x, y) == ~FGe(y, x)
\* max(x, y) of Python: y only when it is greater
FMax(x, y) == IF FGt(y, x) THEN y ELSE x

\* x + y and x - y (for x >= y) of doubles
FAdd(x, y) == Round53(Plus(x, y), FALSE)
FSub(x, y) == Round53(Minus(x, y), FALSE)

\* The lowest n bits of x dropped (n < 24)
ShiftRight(x, n) ==
    LET low == 2 ^ (n)
        high == 2 ^ (24 - n)
    IN  F(x.a \div low,
          (x.a % low) * high + (x.b \div low),
          (x.b % low) * high + (x.c \div low),
          (x.c % low) * high + (x.d \div low))

\* x * y of doubles, bit by bit of y from the lowest.  A bit below the point
\* adds x and the sum is halved: what falls below 2^-84 is remembered in
\* `cut`.  A bit of the whole part adds x, doubled once for each bit before.
\* n steps from bit i upwards: the first half of them, then the rest.
RECURSIVE MulSteps(_, _, _, _, _)
MulSteps(s, y, i, top, n) ==
    IF n = 1
    THEN LET sum == IF BitAt(y, i) = 1 THEN Plus(s.p, s.x) ELSE s.p
             half == F(sum.a \div 2,
                       (sum.a % 2) * (Limb \div 2) + (sum.b \div 2),
                       (sum.b % 2) * (Limb \div 2) + (sum.c \div 2),
                       (sum.c % 2) * (Limb \div 2) + (sum.d \div 2))
         IN  IF i < FracBits
             THEN [p |-> half, x |-> s.x, cut |-> s.cut \/ sum.d % 2 = 1]
             ELSE [p |-> sum, x |-> IF i < top THEN Twice(s.x, 0) ELSE s.x, cut |-> s.cut]
    ELSE CHOOSE t \in {MulSteps(m, y, i + (n \div 2), top, n - (n \div 2)) :
                          m \in {MulSteps(s, y, i, top, n \div 2)}} : TRUE
FMul(x, y) ==
    LET top == IF Bits(y) > FracBits THEN Bits(y) - 1 ELSE FracBits - 1
    IN  CHOOSE product \in
            {Round53(s.p, s.cut) :
                s \in {MulSteps([p |-> Zero, x |-> x, cut |-> FALSE], y, 0, top, top + 1)}} : TRUE

\* x / y of doubles by long division.  The quotient is below 2^19: the
\* remainder starts as x without its 19 lowest bits, which the first steps
\* bring in; each step gives one bit of the quotient, down to 2^-84.
RECURSIVE DivSteps(_, _, _, _, _)
DivSteps(s, x, y, i, n) ==
    IF n = 1
    THEN LET r2 == Twice(s.r, IF i >= 0 THEN BitAt(x, i) ELSE 0)
         IN  IF FGe(r2, y) THEN [r |-> Minus(r2, y), q |-> Twice(s.q, 1)]
             ELSE [r |-> r2, q |-> Twice(s.q, 0)]
    ELSE CHOOSE t \in {DivSteps(m, x, y, i - (n \div 2), n - (n \div 2)) :
                          m \in {DivSteps(s, x, y, i, n \div 2)}} : TRUE
FDiv(x, y) ==
    CHOOSE quotient \in
        {Round53(s.q, s.r # Zero) :
            s \in {DivSteps([r |-> ShiftRight(x, IntBits), q |-> Zero], x, y,
                            IntBits - 1, IntBits + FracBits)}} : TRUE

\* p / q of two ints, and the double a decimal literal p/q denotes: the
\* whole part, then 84 bits below the point
RECURSIVE QuotSteps(_, _, _)
QuotSteps(s, q, n) ==
    IF n = 1
    THEN IF 2 * s.r >= q THEN [r |-> 2 * s.r - q, q |-> Twice(s.q, 1)]
         ELSE [r |-> 2 * s.r, q |-> Twice(s.q, 0)]
    ELSE CHOOSE t \in {QuotSteps(m, q, n - (n \div 2)) : m \in {QuotSteps(s, q, n \div 2)}} : TRUE
FDivInt(p, q) ==
    CHOOSE quotient \in
        {Round53(s.q, s.r # 0) :
            s \in {QuotSteps([r |-> p % q, q |-> F(0, 0, 0, p \div q)], q, FracBits)}} : TRUE

\* x * 2^k for k < 48 and x below 2^-12
ShiftLeft(x, k) ==
    LET y == IF k >= 24 THEN F(x.a * Limb + x.b, x.c, x.d, 0) ELSE x
        up == 2 ^ (k % 24)
        high == 2 ^ (24 - (k % 24))
    IN  F(y.a * up + (y.b \div high),
          (y.b % high) * up + (y.c \div high),
          (y.c % high) * up + (y.d \div high),
          (y.d % high) * up)

\* math.sqrt of an int: the root digit by digit from the highest, two bits
\* of the radicand for each bit of the root; 55 bits of the root and whether
\* anything is left decide the rounding
RECURSIVE SqrtSteps(_, _, _, _)
SqrtSteps(s, n, i, count) ==
    IF count = 1
    THEN LET pair == IF i >= 0 THEN (n \div 2 ^ (2 * i)) % 4 ELSE 0
             r2 == Twice(Twice(s.r, pair \div 2), pair % 2)
             t == Twice(Twice(s.q, 0), 1)
         IN  IF FGe(r2, t) THEN [r |-> Minus(r2, t), q |-> Twice(s.q, 1)]
             ELSE [r |-> r2, q |-> Twice(s.q, 0)]
    ELSE CHOOSE t \in {SqrtSteps(m, n, i - (count \div 2), count - (count \div 2)) :
                          m \in {SqrtSteps(s, n, i, count \div 2)}} : TRUE
Sqrt(n) ==
    LET pairs == (BitLen(n) + 1) \div 2
    IN  IF n = 0 THEN Zero
        ELSE CHOOSE root \in
                 {Round53(ShiftLeft(s.q, FracBits - (Mantissa + 2 - pairs)), s.r # Zero) :
                     s \in {SqrtSteps([r |-> Zero, q |-> Zero], n, pairs - 1, Mantissa + 2)}} : TRUE

\* round(x, digits), in units of 10^-digits: the decimal nearest to the exact
\* value of x, ties to even
RECURSIVE TimesPow10(_, _)
TimesPow10(x, n) ==
    IF n = 0 THEN x
    ELSE CHOOSE v \in {MulSmall(t, 10) : t \in {TimesPow10(x, n - 1)}} : TRUE
RoundDigits(x, digits) ==
    LET t == TimesPow10(x, digits)
        whole == t.a \div IntUnit
        frac == t.a % IntUnit
        half == IntUnit \div 2
        rest == t.b > 0 \/ t.c > 0 \/ t.d > 0
    IN  IF frac > half \/ (frac = half /\ (rest \/ whole % 2 = 1))
        THEN whole + 1 ELSE whole

\* ------------------------------------------------------ train_model helpers
\* Accuracies are kept as the number of correct validation predictions; the
\* validation set is the same in every epoch, so comparing counts compares
\* accuracy_score values.  round(x, 4) is kept in ten-thousandths.

\* round(correct / total, 4): accuracy_score divides two ints
Round4(correct, total) ==
    CHOOSE rounded \in {RoundDigits(val_acc, 4) : val_acc \in {FDivInt(correct, total)}} : TRUE

LossOf(k) == [loss_of_epoch |-> k]
Round4Loss(l) == [round4 |-> l]

\* Faulty variant: the snapshot numbers the epochs from 0
EpochProgressFromZero(e, total, train_loss, val_loss, val_correct, val_total) ==
    [current_epoch |-> e, total_epochs |-> total,
     train_loss |-> Round4Loss(train_loss), val_loss |-> Round4Loss(val_loss),
     val_accuracy |-> Round4(val_correct, val_total), phase |-> "training"]

\* the dict handed to progress_callback after an epoch
EpochProgress(e, total, train_loss, val_loss, val_correct, val_total) ==
    [current_epoch |-> e + 1, total_epochs |-> total,
     train_loss |-> Round4Loss(train_loss), val_loss |-> Round4Loss(val_loss),
     val_accuracy |-> Round4(val_correct, val_total), phase |-> "training"]

\* Faulty variant: the comparison is turned around
IsBetterReversed(val_acc, best) == val_acc < best

\* if val_acc > best_val_acc
IsBetter(val_acc, best) == val_acc > best

\* model.state_dict().copy(): state_dict() returns the module's own tensors
\* (detached views sharing storage) and dict.copy() is shallow, so the copy
\* refers to the live parameters: what it holds is read through the reference.
\* `t` is the tensor storage: t.params holds the weights of the live module,
\* named by the epoch whose training last updated them (0: as created).
StateDictCopy(t) == [ref |-> "params"]

\* model.load_state_dict(state): copies the referenced tensors into the module
LoadStateDict(t, state) == [t EXCEPT !["params"] = t[state.ref]]

\* torch.save(model.state_dict(), buffer): the bytes of the live weights
TorchSave(t) == [weights_of_epoch |-> t["params"]]

\* Faulty variant: the lists start with a placeholder entry
HistoryWithPlaceholder == [train_loss |-> <<LossOf(0)>>, val_loss |-> <<LossOf(0)>>,
                           val_acc |-> <<0>>]

\* history = {'train_loss': [], 'val_loss': [], 'val_acc': []}
EmptyHistory == [train_loss |-> <<>>, val_loss |-> <<>>, val_acc |-> <<>>]

\* ------------------------------------------------------ shuffle and split
\* The list fetch_training_data returned: candidate i is the row with id i
Candidates(n) == [i \in 1..n |-> i]

\* Sizes of the candidate lists: the smallest ones the size check lets
\* through, and one of 100
SplitSizes == (MinTrainingData..MaxSplit) \cup {100}

\* np.random.shuffle on a list rearranges it in place:
\*     for i in reversed(range(1, n)): j = a draw from 0..i; x[i], x[j] = x[j], x[i]
\* draws[k] is the j drawn for i = n - k (the code counts positions from 0).
\* The steps are taken in their order, the first half of them, then the rest.
Shuffled(list, draws) ==
    LET n == Len(list)
        RECURSIVE Steps(_, _, _)
        Steps(x, k, count) ==
            IF count = 1
            THEN LET i == n - k
                     j == draws[k]
                 IN  [x EXCEPT ![i + 1] = x[j + 1], ![j + 1] = x[i + 1]]
            ELSE CHOOSE y \in {Steps(m, k + (count \div 2), count - (count \div 2)) :
                                  m \in {Steps(x, k, count \div 2)}} : TRUE
    IN  IF n < 2 THEN list ELSE Steps(list, 1, n - 1)

\* Draws of the generator for the steps lo..hi of the shuffle of n entries
\* (step k is i = n - k): those in which exactly `moves` draws move an
\* element (j # i)
RECURSIVE DrawsWith(_, _, _, _)
DrawsWith(n, lo, hi, moves) ==
    IF lo > hi THEN IF moves = 0 THEN {<<>>} ELSE {}
    ELSE IF lo = hi
    THEN IF moves = 0 THEN {<<n - lo>>}
         ELSE IF moves = 1 THEN {<<j>> : j \in 0..(n - lo - 1)}
         ELSE {}
    ELSE LET mid == (lo + hi) \div 2
         IN  UNION {{first \o rest : first \in DrawsWith(n, lo, mid, m),
                                     rest \in DrawsWith(n, mid + 1, hi, moves - m)} :
                       m \in 0..moves}

\* The draws tried on a list of n entries: up to MaxSwaps moving draws for
\* the short lists and one for the list of 100, and two runs in which every
\* draw moves an element (j = 0 each time, j = i - 1 each time)
Draws(n) ==
    UNION {DrawsWith(n, 1, n - 1, m) : m \in 0..(IF n <= MaxSplit THEN MaxSwaps ELSE 1)}
        \cup {[k \in 1..(n - 1) |-> 0], [k \in 1..(n - 1) |-> n - k - 1]}

\* drawings[:split_idx]
SliceTo(list, i) == SubSeq(list, 1, i)

\* Faulty variant: the validation slice starts one element late
SliceFromSkipsOne(list, i) == SubSeq(list, i + 2, Len(list))

\* drawings[split_idx:]
SliceFrom(list, i) == SubSeq(list, i + 1, Len(list))

\* ------------------------------------------------------------ quality.py
\* Thresholds of QualityScorer
MIN_STROKES == 1
MAX_STROKES == 20
MIN_TOTAL_POINTS == 5
MAX_TOTAL_POINTS == 2000
MIN_DURATION_MS == 200
MAX_DURATION_MS == 60000
MIN_COVERAGE == FDivInt(1, 100)
MIN_BOUNDING_BOX_RATIO == FDivInt(1, 10)
\* quality.py:30  stroke_data.get('canvas', {'width': 400, 'height': 400})
DefaultCanvas == [width |-> 400, height |-> 400]

\* Stroke data: strokes of points on the canvas, coordinates whole numbers.
\* The strokes of one drawing are copies of one shape.
Pt(x, y) == [x |-> x, y |-> y]
StrokeShapes ==
    [dot |-> <<Pt(0, 0)>>,
     still |-> <<Pt(5, 5), Pt(5, 5)>>,
     line |-> <<Pt(0, 0), Pt(40, 0)>>,
     ell |-> <<Pt(0, 0), Pt(40, 0), Pt(40, 1)>>,
     box |-> <<Pt(0, 0), Pt(20, 0), Pt(20, 20)>>,
     slant |-> <<Pt(3, 2), Pt(33, 22)>>,
     zig |-> <<Pt(0, 0), Pt(10, 0), Pt(10, 10), Pt(30, 10)>>]
Durations == {100, 300, 1000, 20000, 70000}
StrokeData(shape, count, duration) ==
    [strokes |-> [i \in 1..count |-> [points |-> StrokeShapes[shape]]],
     canvas |-> [width |-> 40, height |-> 30],
     duration_ms |-> duration]
\* Stroke data with keys left out (no canvas, no duration, a canvas without
\* height, a stroke without points, a point without y), boxes of extreme
\* aspect, and the sample of quality.py's __main__
SpecialInputs ==
    {<<>>,
     [strokes |-> <<[points |-> StrokeShapes["zig"]]>>],
     [strokes |-> <<[points |-> <<Pt(0, 0), Pt(300, 400)>>], [color |-> "black"]>>,
      canvas |-> [width |-> 500]],
     [strokes |-> <<[points |-> <<[x |-> 7]>>]>>, duration_ms |-> 600],
     [strokes |-> <<[points |-> <<Pt(1, 1), Pt(2, 300)>>]>>, duration_ms |-> 600],
     [strokes |-> <<[points |-> StrokeShapes["box"]]>>,
      canvas |-> [width |-> 0, height |-> 0], duration_ms |-> 600],
     [strokes |-> <<[points |-> <<Pt(0, 0), Pt(40, 3)>>]>>,
      canvas |-> [width |-> 40, height |-> 30], duration_ms |-> 600],
     [strokes |-> <<[points |-> <<Pt(0, 0), Pt(3, 40)>>]>>,
      canvas |-> [width |-> 40, height |-> 30], duration_ms |-> 600],
     [shape |-> "circle",
      canvas |-> [width |-> 400, height |-> 400],
      strokes |-> <<[points |-> <<Pt(200, 100), Pt(280, 150), Pt(300, 200), Pt(280, 280),
                                  Pt(200, 300), Pt(120, 280), Pt(100, 200), Pt(120, 150),
                                  Pt(200, 100)>>,
                     color |-> "#000000", width |-> 3]>>,
      duration_ms |-> 1000]}
ScoreInputs ==
    {StrokeData(shape, count, duration) :
        shape \in DOMAIN StrokeShapes, count \in 0..MaxStrokes, duration \in Durations}
    \cup SpecialInputs

RECURSIVE SumSeq(_)
SumSeq(q) == IF q = <<>> THEN 0 ELSE Head(q) + SumSeq(Tail(q))
IntMax(a, b) == IF b > a THEN b ELSE a

\* stroke.get('points', [])
Points(stroke) == DictGet(stroke, "points", <<>>)

\* sum of doubles from the left, continued from acc: the n numbers of q from
\* position i on, the first half of them, then the rest
RECURSIVE FSumFrom(_, _, _, _)
FSumFrom(acc, q, i, n) ==
    IF n = 0 THEN acc
    ELSE IF n = 1 THEN FAdd(acc, q[i])
    ELSE CHOOSE t \in {FSumFrom(m, q, i + (n \div 2), n - (n \div 2)) :
                          m \in {FSumFrom(acc, q, i, n \div 2)}} : TRUE

\* sum(q) of doubles, from the start value 0, as the interpreter that runs
\* quality.py computes it.  CPython up to 3.11 adds from the left.  From
\* 3.12 on it also keeps in c, which can be negative, what each addition
\* t = s + x rounded away, (s - t) + x or (x - t) + s with the larger of s
\* and x first, and adds c to the total at the end unless c is zero.
Sum(q, compensated) ==
    LET Signed(neg, mag) == [neg |-> neg, mag |-> mag]
        Larger(hi, lo) ==
            Signed(hi.neg, IF hi.neg = lo.neg THEN FAdd(hi.mag, lo.mag) ELSE FSub(hi.mag, lo.mag))
        Add(u, v) ==
            Larger(IF FGe(u.mag, v.mag) THEN u ELSE v, IF FGe(u.mag, v.mag) THEN v ELSE u)
        Step(st, x) ==
            CHOOSE next \in
                {[s |-> t, c |-> Add(st.c, lost)] :
                    <<t, lost>> \in
                        {<<u, Add(Signed(TRUE, FSub(u, IF FGe(st.s, y) THEN st.s ELSE y)),
                                  Signed(FALSE, IF FGe(st.s, y) THEN y ELSE st.s))>> :
                            <<u, y>> \in {<<FAdd(st.s, z), z>> : z \in {x}}}} : TRUE
        RECURSIVE Steps(_, _, _)
        Steps(st, items, i) ==
            IF i > Len(items) THEN st
            ELSE CHOOSE r \in {Steps(n, items, i + 1) : n \in {Step(st, items[i])}} : TRUE
        Total(end) ==
            IF end.c.mag = Zero THEN end.s ELSE Add(Signed(FALSE, end.s), end.c).mag
    IN  CHOOSE total \in
            {IF ~compensated THEN FSumFrom(FromInt(0), items, 1, Len(items))
             ELSE CHOOSE sum \in
                      {Total(end) :
                          end \in {Steps([s |-> Zero, c |-> Signed(FALSE, Zero)], items, 1)}} :
                      TRUE :
                items \in {q}} : TRUE

\* _calculate_ink_length: total = 0.0, then total += math.sqrt(dx*dx + dy*dy)
\* for the segments of every stroke in turn
SegmentLengths(points) ==
    IF Len(points) < 2 THEN <<>>
    ELSE [k \in 1..(Len(points) - 1) |->
             LET dx == points[k + 1].x - points[k].x
                 dy == points[k + 1].y - points[k].y
             IN  Sqrt(dx * dx + dy * dy)]
RECURSIVE AllSegmentLengths(_, _)
AllSegmentLengths(strokes, s) ==
    IF s = 0 THEN <<>>
    ELSE AllSegmentLengths(strokes, s - 1) \o SegmentLengths(Points(strokes[s]))
CalculateInkLength(strokes) ==
    LET lengths == AllSegmentLengths(strokes, Len(strokes))
    IN  FSumFrom(FromInt(0), lengths, 1, Len(lengths))

\* __init__ and _compute_metrics
ComputeMetrics(stroke_data) ==
    LET strokes == DictGet(stroke_data, "strokes", <<>>)
        canvas == DictGet(stroke_data, "canvas", DefaultCanvas)
        total_points == SumSeq([i \in 1..Len(strokes) |-> Len(Points(strokes[i]))])
        all == UNION {{Points(strokes[i])[k] : k \in 1..Len(Points(strokes[i]))} :
                         i \in 1..Len(strokes)}
        xs == IF total_points = 0 THEN {0} ELSE {DictGet(pt, "x", 0) : pt \in all}
        ys == IF total_points = 0 THEN {0} ELSE {DictGet(pt, "y", 0) : pt \in all}
        SetMin(S) == CHOOSE x \in S : \A y \in S : x <= y
        SetMax(S) == CHOOSE x \in S : \A y \in S : x >= y
    IN  [strokes |-> strokes,
         duration_ms |-> DictGet(stroke_data, "duration_ms", 0),
         canvas_width |-> DictGet(canvas, "width", 400),
         canvas_height |-> DictGet(canvas, "height", 400),
         total_points |-> total_points,
         min_x |-> SetMin(xs),
         max_x |-> SetMax(xs),
         min_y |-> SetMin(ys),
         max_y |-> SetMax(ys),
         bbox_width |-> IntMax(0, SetMax(xs) - SetMin(xs)),
         bbox_height |-> IntMax(0, SetMax(ys) - SetMin(ys)),
         total_ink |-> CalculateInkLength(strokes)]

\* A text is the sequence of its pieces: the constant parts of an f-string
\* and the characters of each formatted value.
\* f"{x:.2f}" with `digits` for 2
Fixed(x, digits) ==
    LET units == RoundDigits(x, digits)
        RECURSIVE Pad(_, _)
        Pad(n, width) ==
            IF width = 0 THEN <<>>
            ELSE Pad(n \div 10, width - 1) \o <<DigitChars[(n % 10) + 1]>>
    IN  IntStr(units \div (10 ^ digits)) \o <<".">> \o Pad(units % (10 ^ digits), digits)
\* f"{x:.1%}": x * 100 in fixed notation

\* The pair a check returns
Check(score, message) == [score |-> score, message |-> message]

\* check_stroke_count
CheckStrokeCount(self) ==
    LET count == Len(self.strokes)
    IN  IF count = 0 THEN Check(FromInt(0), <<"No strokes">>)
        ELSE IF count < MIN_STROKES
        THEN Check(FDivInt(3, 10), <<"Too few strokes (">> \o IntStr(count) \o <<")">>)
        ELSE IF count > MAX_STROKES
        THEN Check(FDivInt(5, 10), <<"Too many strokes (">> \o IntStr(count) \o <<")">>)
        ELSE IF count <= 10 THEN Check(FromInt(1), <<"Good stroke count">>)
        ELSE Check(FMax(FDivInt(5, 10),
                        FSub(FromInt(1), FMul(FromInt(count - 10), FDivInt(5, 100)))),
                   <<"High stroke count (">> \o IntStr(count) \o <<")">>)

\* check_point_count
CheckPointCount(self) ==
    IF self.total_points < MIN_TOTAL_POINTS
    THEN Check(FDivInt(2, 10), <<"Too few points (">> \o IntStr(self.total_points) \o <<")">>)
    ELSE IF self.total_points > MAX_TOTAL_POINTS
    THEN Check(FDivInt(4, 10), <<"Too many points (">> \o IntStr(self.total_points) \o <<")">>)
    ELSE Check(FromInt(1), <<"Good point count">>)

\* check_duration
CheckDuration(self) ==
    LET ms == IntStr(self.duration_ms) \o <<"ms)">>
    IN  IF self.duration_ms < MIN_DURATION_MS THEN Check(FDivInt(3, 10), <<"Too fast (">> \o ms)
        ELSE IF self.duration_ms > MAX_DURATION_MS
        THEN Check(FDivInt(7, 10), <<"Very slow (">> \o ms)
        ELSE IF 500 <= self.duration_ms /\ self.duration_ms <= 10000
        THEN Check(FromInt(1), <<"Good duration">>)
        ELSE IF self.duration_ms < 500 THEN Check(FDivInt(6, 10), <<"Quick drawing (">> \o ms)
        ELSE Check(FDivInt(8, 10), <<"Slow drawing (">> \o ms)

\* check_bounding_box: ratio and aspect are quotients of two ints
CheckBoundingBox(self) ==
    LET canvas_area == self.canvas_width * self.canvas_height
        bbox_area == self.bbox_width * self.bbox_height
        ratio == FDivInt(bbox_area, canvas_area)
        aspect == FDivInt(self.bbox_width, self.bbox_height)
    IN  IF self.total_points = 0 THEN Check(FromInt(0), <<"Empty drawing">>)
        ELSE IF canvas_area = 0 THEN Check(FDivInt(5, 10), <<"Invalid canvas">>)
        ELSE IF FLt(ratio, MIN_BOUNDING_BOX_RATIO)
        THEN Check(FDivInt(4, 10),
                   <<"Drawing too small (">> \o Fixed(FMul(ratio, FromInt(100)), 1) \o <<"%">> \o <<" of canvas)">>)
        ELSE IF FGt(ratio, FDivInt(9, 10)) THEN Check(FDivInt(9, 10), <<"Drawing spans most of canvas">>)
        ELSE IF /\ self.bbox_width > 0
                /\ self.bbox_height > 0
                /\ (FLt(aspect, FDivInt(1, 10)) \/ FGt(aspect, FromInt(10)))
        THEN Check(FDivInt(6, 10), <<"Extreme aspect ratio (">> \o Fixed(aspect, 2) \o <<")">>)
        ELSE Check(FromInt(1), <<"Good bounding box">>)

\* check_ink_coverage
CheckInkCoverage(self) ==
    LET diagonal2 == self.canvas_width * self.canvas_width
                     + self.canvas_height * self.canvas_height
        canvas_diagonal == Sqrt(diagonal2)
        coverage_ratio == FDiv(self.total_ink, canvas_diagonal)
    IN  IF self.total_points = 0 THEN Check(FromInt(0), <<"No ink">>)
        ELSE IF canvas_diagonal = FromInt(0) THEN Check(FDivInt(5, 10), <<"Invalid canvas">>)
        ELSE IF FLt(coverage_ratio, MIN_COVERAGE)
        THEN Check(FDivInt(3, 10), <<"Very little ink (">> \o Fixed(coverage_ratio, 3) \o <<")">>)
        ELSE IF FGt(coverage_ratio, FromInt(5))
        THEN Check(FDivInt(4, 10),
                   <<"Excessive ink (">> \o Fixed(coverage_ratio, 1) \o <<"x diagonal)">>)
        ELSE Check(FromInt(1), <<"Good ink coverage">>)

\* check_stroke_quality: a stroke gives at most one issue
StrokeIssue(strokes, i) ==
    LET points == Points(strokes[i])
        unique_points == {<<points[k].x, points[k].y>> : k \in 1..Len(points)}
        stroke == <<"Stroke ">> \o IntStr(i)
    IN  IF Len(points) < 2
        THEN stroke \o <<" has only ">> \o IntStr(Len(points)) \o <<" point(s)">>
        ELSE IF Cardinality(unique_points) = 1 THEN stroke \o <<" has no movement">>
        ELSE <<>>
CheckStrokeQuality(self) ==
    LET issues == SelectSeq([i \in 1..Len(self.strokes) |-> StrokeIssue(self.strokes, i)],
                            LAMBDA issue : issue # <<>>)
    IN  IF self.strokes = <<>> THEN Check(FromInt(0), <<"No strokes">>)
        ELSE IF Len(issues) > 3
        THEN Check(FDivInt(3, 10), IntStr(Len(issues)) \o <<" stroke issues">>)
        ELSE IF Len(issues) > 1 THEN Check(FDivInt(6, 10), issues[1] \o <<"; ">> \o issues[2])
        ELSE IF Len(issues) > 0 THEN Check(FDivInt(6, 10), issues[1])
        ELSE Check(FromInt(1), <<"Good stroke quality">>)

\* 'passed': final_score >= 50
Passed(final_score) == FGe(final_score, FromInt(50))

\* round(x, 1) of a double, in tenths
Tenths(x) == [tenths |-> RoundDigits(x, 1)]

\* calculate_score, on the scorer QualityScorer(stroke_data) has built: the
\* constructor computes the metrics before any check runs.  `compensated`
\* tells which sum() the interpreter has.
Weights == <<FromInt(1), FromInt(1), FDivInt(5, 10), FDivInt(15, 10), FromInt(1), FromInt(1)>>
CalculateScore(stroke_data, compensated) ==
    LET names == <<"stroke_count", "point_count", "duration", "bounding_box",
                   "ink_coverage", "stroke_quality">>
        Score(self, checks) ==
            LET total_weight == Sum(Weights, compensated)
                weighted_sum ==
                    Sum([i \in 1..6 |-> FMul(Weights[i], checks[i].score)], compensated)
                Result(final_score) ==
                    [score |-> Tenths(final_score),
                     passed |-> Passed(final_score),
                     checks |-> [i \in 1..6 |->
                                    [name |-> names[i],
                                     score |-> Tenths(FMul(checks[i].score, FromInt(100))),
                                     message |-> checks[i].message]],
                     recommendation |->
                         IF FGe(final_score, FromInt(70)) THEN "Include in training"
                         ELSE IF FGe(final_score, FromInt(50)) THEN "Review manually"
                         ELSE "Exclude from training",
                     metrics |-> [stroke_count |-> Len(self.strokes),
                                  total_points |-> self.total_points,
                                  duration_ms |-> self.duration_ms,
                                  bbox_width |-> self.bbox_width,
                                  bbox_height |-> self.bbox_height,
                                  total_ink |-> Tenths(self.total_ink)]]
            IN  Result(FMul(FDiv(weighted_sum, total_weight), FromInt(100)))
        Checks(self) ==
            <<CheckStrokeCount(self), CheckPointCount(self), CheckDuration(self),
              CheckBoundingBox(self), CheckInkCoverage(self), CheckStrokeQuality(self)>>
    IN  CHOOSE result \in
            {Score(self, checks) :
                <<self, checks>> \in {<<scorer, Checks(scorer)>> :
                                         scorer \in {ComputeMetrics(stroke_data)}}} : TRUE

\* ----------------------------------------------------- fetch_training_data
\* A JSON number of the config; JSON null and Python's None are NULL
Num(n) == [num |-> n]

\* Table shapes, and the rows table drawings may hold: shape_id refers to a
\* row of shapes
ShapesTable == {[id |-> 1, name |-> "circle"]}
QualityScores == {NULL, Num(40), Num(60)}
DrawingRows(i) ==
    {[id |-> i, stroke_data_path |-> [drawing |-> i], shape_id |-> 1,
      is_flagged |-> f, quality_score |-> q] : f \in BOOLEAN, q \in QualityScores}

RECURSIVE DrawingTables(_)
DrawingTables(n) ==
    IF n = 0 THEN {{}}
    ELSE DrawingTables(n - 1)
         \cup {t \cup {d} : t \in {x \in DrawingTables(n - 1) : Cardinality(x) = n - 1},
                            d \in DrawingRows(n)}

\* Configs: each of the two keys absent, null, or a number
FetchConfigs ==
    LET quality == {<<>>} \cup {[min_quality_score |-> v] : v \in {NULL, Num(50), Num(60)}}
        samples == {<<>>} \cup {[max_samples |-> v] : v \in {NULL} \cup {Num(m) : m \in 0..MaxRows}}
    IN  {q @@ s : q \in quality, s \in samples}

\* Python's truth value of an optional number: None and 0 are false
Truthy(v) == v # NULL /\ v.num # 0

\* FROM drawings d JOIN shapes s ON d.shape_id = s.id WHERE d.is_flagged = FALSE
\* [AND (d.quality_score IS NULL OR d.quality_score >= %s)]
Selected(table, min_quality) ==
    {[id |-> d.id, stroke_data_path |-> d.stroke_data_path, shape_name |-> s.name] :
        <<d, s>> \in {x \in table \X ShapesTable :
                        /\ x[1].shape_id = x[2].id
                        /\ x[1].is_flagged = FALSE
                        /\ (min_quality # NULL =>
                               \/ x[1].quality_score = NULL
                               \/ x[1].quality_score.num >= min_quality.num)}}

\* [ORDER BY RANDOM() LIMIT %s]: the results the statement may return
Limited(selected, max_samples) ==
    IF Truthy(max_samples)
    THEN {r \in SUBSET selected :
            Cardinality(r) = IF max_samples.num < Cardinality(selected)
                             THEN max_samples.num ELSE Cardinality(selected)}
    ELSE {selected}

\* fetch_training_data(conn, config): the lists it may return, as sets of rows
FetchTrainingData(table, cfg) ==
    LET min_quality == DictGet(cfg, "min_quality_score", NULL)
        max_samples == DictGet(cfg, "max_samples", NULL)
    IN  Limited(Selected(table, min_quality), max_samples)

\* Faulty variant: the handler records the cancellation itself
HandlerStatusCancels(error_msg) ==
    IF IsCancellation(error_msg) THEN [written |-> "cancelled"] ELSE [written |-> "failed"]

\* if 'cancelled' not in error_msg.lower(): update_job_status(..., 'failed', ...):
\* the status the handler writes, or NULL when it writes none
HandlerStatus(error_msg) ==
    IF IsCancellation(error_msg) THEN NULL ELSE [written |-> "failed"]

\* ---------------------------------------------------------------- state
VARIABLES
    queue,            \* messages waiting in 'training_jobs'
    prefetched,       \* messages the broker has pushed to the consumer, not yet handed to callback
    inflight,         \* the message callback is working on, or NULL
    settled,          \* basic_ack / basic_nack calls, in order
    pc,               \* where the worker is
    conn,             \* process_job's database connection: "none", "open", "closed"
    store,            \* table training_jobs: job id -> row
    artifacts,        \* bucket 'models': set of [object_name, blob]
    registry,         \* table models: sequence of rows
    drawingsDb,       \* number of eligible rows of table drawings
    faults,           \* errors the stores and the trainer have raised so far
    drawings,         \* process_job: len(drawings)
    epoch,            \* train_model: loop variable
    best_val_acc,     \* train_model
    best_model_state, \* train_model
    history,          \* train_model
    tensors,          \* train_model: the module's parameter storage
    metrics,          \* train_model's result
    exc,              \* the exception being propagated, or NULL
    wlog,             \* writes of the current delivery, in order
    seen_precheck,    \* status the pre-check read in this delivery, or NULL
    seen_probe,       \* TRUE once an epoch probe of this delivery read 'cancelled'
    probes,           \* number of epoch probes evaluated in this delivery
    raised,           \* where the try block of this delivery raised, and what; or NULL
    published,        \* the messages published to the queue, in order
    outcome,          \* how process_job ended in this delivery
    split_call,       \* one run of the shuffle and split of process_job, or NULL
    fetch_call,       \* one call of fetch_training_data, or NULL
    score_call        \* one call of score_drawing, or NULL

qvars == <<queue, prefetched, inflight, settled>>
dbvars == <<store, artifacts, registry, drawingsDb>>
trainvars == <<epoch, best_val_acc, best_model_state, history, tensors, metrics>>
histvars == <<wlog, seen_precheck, seen_probe, probes, raised, published, outcome>>
fnvars == <<split_call, fetch_call, score_call>>
vars == <<queue, prefetched, inflight, settled, pc, conn, store, artifacts, registry,
          drawingsDb, faults, drawings, epoch, best_val_acc, best_model_state, history,
          tensors, metrics, exc, wlog, seen_precheck, seen_probe, probes, raised, published,
          outcome, split_call, fetch_call, score_call, python>>

job_id == inflight.obj.jobId
config == DictGet(inflight.obj, "config", <<>>)
epochs == ConfigEpochs(config)

\* The state after main() has set up the channel: `max_msgs` messages at most
\* wait in the queue, the job's config asks for `max_epochs` epochs at most.
WorkerInit(max_msgs, max_epochs) ==
    /\ \E n \in 0..max_epochs : queue \in SeqsUpTo(Messages(n), max_msgs)
    /\ prefetched = <<>>
    /\ inflight = NULL
    /\ settled = <<>>
    /\ pc = "idle"
    /\ conn = "none"
    /\ store = [j \in Jobs |-> PendingJob]
    /\ artifacts = {}
    /\ registry = <<>>
    /\ drawingsDb \in DrawingCounts
    /\ faults = 0
    /\ drawings = 0
    /\ epoch = 0
    /\ best_val_acc = 0
    /\ best_model_state = NULL
    /\ history = EmptyHistory
    /\ tensors = [params |-> 0]
    /\ metrics = NULL
    /\ exc = NULL
    /\ wlog = <<>>
    /\ seen_precheck = NULL
    /\ seen_probe = FALSE
    /\ probes = 0
    /\ raised = NULL
    /\ published = queue
    /\ outcome = "none"
    /\ python \in Pythons

InitWith(max_msgs, max_epochs) ==
    /\ WorkerInit(max_msgs, max_epochs)
    /\ split_call = NULL
    /\ fetch_call = NULL
    /\ score_call = NULL

\* Entries of wlog
StatusWrite(status, progress_arg, metrics_arg, error_message_arg) ==
    [store_name |-> "status", status |-> [written |-> status], progress |-> progress_arg,
     metrics |-> metrics_arg, error_message |-> error_message_arg]
ProgressWrite(progress_arg) ==
    [store_name |-> "status", status |-> NULL, progress |-> progress_arg,
     metrics |-> NULL, error_message |-> NULL]
ArtifactWrite(name) ==
    [store_name |-> "artifact", status |-> NULL, progress |-> NULL,
     metrics |-> NULL, error_message |-> NULL]
RegistryWrite(j) ==
    [store_name |-> "registry", status |-> NULL, progress |-> NULL,
     metrics |-> NULL, error_message |-> NULL]

\* ---------------------------------------------------------------- queue
\* Messages delivered by the broker and not yet acked or nacked
Unsettled == Len(prefetched) + (IF inflight = NULL THEN 0 ELSE 1)

\* The broker pushes the next message of the queue to the consumer while
\* fewer than prefetch_count deliveries are unsettled.
Push ==
    /\ queue # <<>>
    /\ Unsettled < PrefetchCount
    /\ prefetched' = Append(prefetched, Head(queue))
    /\ queue' = Tail(queue)
    /\ UNCHANGED <<inflight, settled, pc, conn, dbvars, faults, drawings, trainvars, exc,
                   histvars, fnvars, python>>

\* start_consuming hands the next pushed message to callback once the
\* previous call has returned; the locals of the previous call are gone.
Deliver ==
    /\ pc = "idle"
    /\ prefetched # <<>>
    /\ inflight' = Head(prefetched)
    /\ prefetched' = Tail(prefetched)
    /\ pc' = "callback"
    /\ conn' = "none"
    /\ drawings' = 0
    /\ epoch' = 0
    /\ best_val_acc' = 0
    /\ best_model_state' = NULL
    /\ history' = EmptyHistory
    /\ tensors' = [params |-> 0]
    /\ metrics' = NULL
    /\ exc' = NULL
    /\ wlog' = <<>>
    /\ seen_precheck' = NULL
    /\ seen_probe' = FALSE
    /\ probes' = 0
    /\ raised' = NULL
    /\ outcome' = "none"
    /\ UNCHANGED <<queue, settled, dbvars, faults, published, fnvars, python>>

\* callback: json.loads, message['jobId'], message.get('config', {})
Callback ==
    /\ pc = "callback"
    /\ IF MessageRaises(inflight)
       THEN /\ pc' = "nack"
            /\ outcome' = "not_called"
       ELSE /\ pc' = "connect"
            /\ outcome' = outcome
    /\ UNCHANGED <<qvars, conn, dbvars, faults, drawings, trainvars, exc, wlog, seen_precheck,
                   seen_probe, probes, raised, published, fnvars, python>>

\* process_job: conn = get_db_connection(), before the try block
Connect ==
    /\ pc = "connect"
    /\ conn' = "open"
    /\ pc' = "precheck"
    /\ UNCHANGED <<qvars, dbvars, faults, drawings, trainvars, exc, histvars, fnvars, python>>

\* get_db_connection() raises: no handler and no finally of process_job applies
ConnectFails ==
    /\ pc = "connect"
    /\ faults < MaxFaults
    /\ faults' = faults + 1
    /\ \E e \in FaultTexts : exc' = Str(e)
    /\ outcome' = "raised"
    /\ pc' = "nack"
    /\ UNCHANGED <<qvars, conn, dbvars, drawings, trainvars, wlog, seen_precheck, seen_probe,
                   probes, raised, published, fnvars, python>>

\* minio_client = get_minio_client() raises: the connection is open already,
\* and the statement is before the try block, so neither the handler nor
\* the finally clause of process_job applies
ClientFails ==
    /\ pc = "connect"
    /\ faults < MaxFaults
    /\ faults' = faults + 1
    /\ conn' = "open"
    /\ \E e \in FaultTexts : exc' = Str(e)
    /\ outcome' = "raised"
    /\ pc' = "nack"
    /\ UNCHANGED <<qvars, dbvars, drawings, trainvars, wlog, seen_precheck, seen_probe, probes,
                   raised, published, fnvars, python>>

\* if is_cancelled(): return
PreCheck ==
    /\ pc = "precheck"
    /\ seen_precheck' = [status |-> store[job_id].status]
    /\ pc' = IF CheckJobCancelled(store, job_id) THEN "finally" ELSE "set_running"
    /\ UNCHANGED <<qvars, conn, dbvars, faults, drawings, trainvars, exc, wlog, seen_probe,
                   probes, raised, published, outcome, fnvars, python>>

\* update_job_status(conn, job_id, 'running', progress={'phase': 'initializing', ...})
SetRunning ==
    /\ pc = "set_running"
    /\ store' = UpdateJobStatus(store, job_id, "running", NULL, NULL, NULL,
                                PhaseProgress("initializing", 0, config))
    /\ wlog' = Append(wlog, StatusWrite("running", PhaseProgress("initializing", 0, config), NULL, NULL))
    /\ pc' = "report_loading"
    /\ UNCHANGED <<qvars, conn, artifacts, registry, drawingsDb, faults, drawings, trainvars,
                   exc, seen_precheck, seen_probe, probes, raised, published, outcome, fnvars,
                   python>>

\* report_progress({'phase': 'loading_data', ...})
ReportLoading ==
    /\ pc = "report_loading"
    /\ store' = UpdateJobProgress(store, job_id, PhaseProgress("loading_data", 0, config))
    /\ wlog' = Append(wlog, ProgressWrite(PhaseProgress("loading_data", 0, config)))
    /\ pc' = "fetch"
    /\ UNCHANGED <<qvars, conn, artifacts, registry, drawingsDb, faults, drawings, trainvars,
                   exc, seen_precheck, seen_probe, probes, raised, published, outcome, fnvars,
                   python>>

\* drawings = fetch_training_data(conn, config); the size check; the split
Fetch ==
    /\ pc = "fetch"
    /\ drawings' = drawingsDb
    /\ IF NotEnoughData(drawingsDb)
       THEN /\ exc' = Str(NotEnoughText(drawingsDb))
            /\ raised' = [at |-> "size_check", exc |-> Str(NotEnoughText(drawingsDb))]
            /\ pc' = "except"
       ELSE /\ exc' = exc
            /\ raised' = raised
            /\ pc' = "report_preparing"
    /\ UNCHANGED <<qvars, conn, dbvars, faults, trainvars, wlog, seen_precheck, seen_probe,
                   probes, published, outcome, fnvars, python>>

\* report_progress({'phase': 'preparing_data', ...}); the datasets and loaders;
\* train_model up to its loop: a fresh module, best_val_acc = 0.0,
\* best_model_state = None, empty history
ReportPreparing ==
    /\ pc = "report_preparing"
    /\ store' = UpdateJobProgress(store, job_id, PhaseProgress("preparing_data", 0, config))
    /\ wlog' = Append(wlog, ProgressWrite(PhaseProgress("preparing_data", 0, config)))
    /\ pc' = "epoch_probe"
    /\ UNCHANGED <<qvars, conn, artifacts, registry, drawingsDb, faults, drawings, trainvars,
                   exc, seen_precheck, seen_probe, probes, raised, published, outcome, fnvars,
                   python>>

\* for epoch in range(epochs): if cancellation_checker(): raise Exception(...)
EpochProbe ==
    /\ pc = "epoch_probe"
    /\ epoch < epochs
    /\ probes' = probes + 1
    /\ IF CheckJobCancelled(store, job_id)
       THEN /\ exc' = Str(TrainingCancelledText)
            /\ raised' = [at |-> "probe", exc |-> Str(TrainingCancelledText)]
            /\ pc' = "except"
            /\ seen_probe' = TRUE
       ELSE /\ exc' = exc
            /\ raised' = raised
            /\ pc' = "epoch_run"
            /\ seen_probe' = seen_probe
    /\ UNCHANGED <<qvars, conn, dbvars, faults, drawings, trainvars, wlog, seen_precheck,
                   published, outcome, fnvars, python>>

\* One epoch: the training pass updates the parameters in place, the
\* validation pass yields val_acc; the three history lists grow by one.
EpochRun ==
    /\ pc = "epoch_run"
    /\ \E correct \in 0..ValSize(drawings) :
          history' = [train_loss |-> Append(history.train_loss, LossOf(epoch + 1)),
                      val_loss |-> Append(history.val_loss, LossOf(epoch + 1)),
                      val_acc |-> Append(history.val_acc, correct)]
    /\ tensors' = [tensors EXCEPT !["params"] = epoch + 1]
    /\ pc' = "epoch_report"
    /\ UNCHANGED <<qvars, conn, dbvars, faults, drawings, epoch, best_val_acc, best_model_state,
                   metrics, exc, histvars, fnvars, python>>

\* progress_callback({...'phase': 'training'}); "Save best model"; scheduler.step()
EpochReport ==
    /\ pc = "epoch_report"
    /\ LET val_acc == history.val_acc[Len(history.val_acc)]
           progress == EpochProgress(epoch, epochs, LossOf(epoch + 1), LossOf(epoch + 1),
                                     val_acc, ValSize(drawings))
       IN  /\ store' = UpdateJobProgress(store, job_id, progress)
           /\ wlog' = Append(wlog, ProgressWrite(progress))
           /\ IF IsBetter(val_acc, best_val_acc)
              THEN /\ best_val_acc' = val_acc
                   /\ best_model_state' = StateDictCopy(tensors)
              ELSE UNCHANGED <<best_val_acc, best_model_state>>
    /\ epoch' = epoch + 1
    /\ pc' = "epoch_probe"
    /\ UNCHANGED <<qvars, conn, artifacts, registry, drawingsDb, faults, drawings, history,
                   tensors, metrics, exc, seen_precheck, seen_probe, probes, raised, published,
                   outcome, fnvars, python>>

\* After the loop: load the best state, final evaluation, the metrics dict.
\* history['train_loss'][-1] raises IndexError when no epoch ran.
TrainFinish ==
    /\ pc = "epoch_probe"
    /\ ~(epoch < epochs)
    /\ LET loaded == IF best_model_state # NULL
                     THEN LoadStateDict(tensors, best_model_state)
                     ELSE tensors
       IN  /\ tensors' = loaded
           /\ IF Len(history.train_loss) = 0
              THEN /\ exc' = Str(IndexErrorText)
                   /\ raised' = [at |-> "metrics", exc |-> Str(IndexErrorText)]
                   /\ pc' = "except"
                   /\ metrics' = metrics
              ELSE /\ metrics' = [accuracy |-> best_val_acc,
                                  final_train_loss |-> history.train_loss[Len(history.train_loss)],
                                  final_val_loss |-> history.val_loss[Len(history.val_loss)],
                                  confusion_matrix |-> [evaluated_weights |-> loaded["params"]],
                                  history |-> history]
                   /\ pc' = "report_saving"
                   /\ exc' = exc
                   /\ raised' = raised
    /\ UNCHANGED <<qvars, conn, dbvars, faults, drawings, epoch, best_val_acc, best_model_state,
                   history, wlog, seen_precheck, seen_probe, probes, published, outcome, fnvars,
                   python>>

\* report_progress({'phase': 'saving_model', ...})
ReportSaving ==
    /\ pc = "report_saving"
    /\ store' = UpdateJobProgress(store, job_id, PhaseProgress("saving_model", epochs, config))
    /\ wlog' = Append(wlog, ProgressWrite(PhaseProgress("saving_model", epochs, config)))
    /\ pc' = "save_model"
    /\ UNCHANGED <<qvars, conn, artifacts, registry, drawingsDb, faults, drawings, trainvars,
                   exc, seen_precheck, seen_probe, probes, raised, published, outcome, fnvars,
                   python>>

\* model_path = save_model_to_minio(model, job_id, minio_client)
SaveModel ==
    /\ pc = "save_model"
    /\ artifacts' = {a \in artifacts : a.object_name # ObjectName(job_id)}
                    \cup {[object_name |-> ObjectName(job_id), blob |-> TorchSave(tensors)]}
    /\ wlog' = Append(wlog, ArtifactWrite(ObjectName(job_id)))
    /\ pc' = "create_record"
    /\ UNCHANGED <<qvars, conn, store, registry, drawingsDb, faults, drawings, trainvars, exc,
                   seen_precheck, seen_probe, probes, raised, published, outcome, fnvars, python>>

\* create_model_record(conn, job_id, model_path, metrics['accuracy'])
CreateRecord ==
    /\ pc = "create_record"
    /\ registry' = Append(registry, [training_job_id |-> job_id,
                                     accuracy |-> metrics.accuracy,
                                     model_path |-> ObjectName(job_id)])
    /\ wlog' = Append(wlog, RegistryWrite(job_id))
    /\ pc' = "set_completed"
    /\ UNCHANGED <<qvars, conn, store, artifacts, drawingsDb, faults, drawings, trainvars, exc,
                   seen_precheck, seen_probe, probes, raised, published, outcome, fnvars, python>>

\* update_job_status(conn, job_id, 'completed', metrics=metrics, model_path=model_path)
SetCompleted ==
    /\ pc = "set_completed"
    /\ store' = UpdateJobStatus(store, job_id, "completed", metrics,
                                ObjectName(job_id), NULL, NULL)
    /\ wlog' = Append(wlog, StatusWrite("completed", NULL, metrics, NULL))
    /\ pc' = "finally"
    /\ UNCHANGED <<qvars, conn, artifacts, registry, drawingsDb, faults, drawings, trainvars,
                   exc, seen_precheck, seen_probe, probes, raised, published, outcome, fnvars,
                   python>>

\* Any call inside the try block of process_job raises instead of returning:
\* a database statement, an object-store request, the trainer.  Within an
\* epoch the loaders read the drawings from the object store: a read of the
\* first training batch raises before optimizer.step() has run, a read of a
\* later batch or of the validation pass after it has changed the parameters.
TryBlock == {"precheck", "set_running", "report_loading", "fetch", "report_preparing",
             "epoch_probe", "epoch_run", "epoch_report", "report_saving", "save_model",
             "create_record", "set_completed"}

CallRaises ==
    /\ pc \in TryBlock
    /\ faults < MaxFaults
    /\ faults' = faults + 1
    /\ \E e \in FaultTexts :
          /\ exc' = Str(e)
          /\ raised' = [at |-> pc, exc |-> Str(e)]
    /\ \E stepped \in {b \in BOOLEAN : b => pc = "epoch_run"} :
          tensors' = IF stepped THEN [tensors EXCEPT !["params"] = epoch + 1] ELSE tensors
    /\ pc' = "except"
    /\ UNCHANGED <<qvars, conn, dbvars, drawings, epoch, best_val_acc, best_model_state, history,
                   metrics, wlog, seen_precheck, seen_probe, probes, published, outcome, fnvars,
                   python>>

\* except Exception as e: error_msg = str(e); the 'failed' write unless the
\* text holds 'cancelled'; raise
Except ==
    /\ pc = "except"
    /\ LET w == HandlerStatus(exc.text)
       IN  IF w = NULL
           THEN UNCHANGED <<store, wlog>>
           ELSE /\ store' = UpdateJobStatus(store, job_id, w.written, NULL, NULL, exc, NULL)
                /\ wlog' = Append(wlog, StatusWrite(w.written, NULL, NULL, exc))
    /\ pc' = "finally"
    /\ UNCHANGED <<qvars, conn, artifacts, registry, drawingsDb, faults, drawings, trainvars,
                   exc, seen_precheck, seen_probe, probes, raised, published, outcome, fnvars,
                   python>>

\* The 'failed' write of the handler raises; that error replaces e
ExceptWriteRaises ==
    /\ pc = "except"
    /\ HandlerStatus(exc.text) # NULL
    /\ faults < MaxFaults
    /\ faults' = faults + 1
    /\ \E e \in FaultTexts : exc' = Str(e)
    /\ pc' = "finally"
    /\ UNCHANGED <<qvars, conn, dbvars, drawings, trainvars, histvars, fnvars, python>>

\* finally: conn.close(); control is back in callback
Finally ==
    /\ pc = "finally"
    /\ conn' = "closed"
    /\ outcome' = IF exc = NULL THEN "returned" ELSE "raised"
    /\ pc' = IF exc = NULL THEN "ack" ELSE "nack"
    /\ UNCHANGED <<qvars, dbvars, faults, drawings, trainvars, exc, wlog, seen_precheck,
                   seen_probe, probes, raised, published, fnvars, python>>

\* ch.basic_ack(delivery_tag=method.delivery_tag)
Ack ==
    /\ pc = "ack"
    /\ settled' = Append(settled, [message |-> inflight, kind |-> "ack", requeue |-> FALSE])
    /\ inflight' = NULL
    /\ pc' = "idle"
    /\ UNCHANGED <<queue, prefetched, conn, dbvars, faults, drawings, trainvars, exc, histvars,
                   fnvars, python>>

\* Faulty variant: the error leaves callback and start_consuming with it
AfterNackStops == "stopped"

\* callback returns after basic_nack; start_consuming waits for the next message
AfterNack == "idle"

\* Faulty variant: the rejected message goes back to the queue
NackRequeueTrue == TRUE

\* ch.basic_nack(delivery_tag=method.delivery_tag, requeue=False)
NackRequeue == FALSE

Nack ==
    /\ pc = "nack"
    /\ settled' = Append(settled, [message |-> inflight, kind |-> "nack", requeue |-> NackRequeue])
    /\ queue' = IF NackRequeue THEN Append(queue, inflight) ELSE queue
    /\ inflight' = NULL
    /\ pc' = AfterNack
    /\ UNCHANGED <<prefetched, conn, dbvars, faults, drawings, trainvars, exc, histvars, fnvars,
                   python>>

\* ------------------------------------------------------- external actor
\* The admin endpoint cancels a job that has not ended: it writes status
\* 'cancelled' into the row, at any moment.
ExternalCancel(j) ==
    /\ store[j].status \in {"pending", "running"}
    /\ store' = [store EXCEPT ![j].status = "cancelled"]
    /\ UNCHANGED <<qvars, pc, conn, artifacts, registry, drawingsDb, faults, drawings, trainvars,
                   exc, histvars, fnvars, python>>

Next ==
    \/ Push
    \/ Deliver
    \/ Callback
    \/ Connect
    \/ ConnectFails
    \/ ClientFails
    \/ PreCheck
    \/ SetRunning
    \/ ReportLoading
    \/ Fetch
    \/ ReportPreparing
    \/ EpochProbe
    \/ EpochRun
    \/ EpochReport
    \/ TrainFinish
    \/ ReportSaving
    \/ SaveModel
    \/ CreateRecord
    \/ SetCompleted
    \/ CallRaises
    \/ Except
    \/ ExceptWriteRaises
    \/ Finally
    \/ Ack
    \/ Nack
    \/ \E j \in Jobs : ExternalCancel(j)

Init == InitWith(MaxMsgs, MaxQueueEpochs)
Spec == Init /\ [][Next]_vars

\* One delivery, with longer training runs
InitTrain == InitWith(1, MaxEpochs) /\ queue # <<>>
SpecTrain == InitTrain /\ [][Next]_vars

\* The steps the worker and the broker take whenever they can; errors of the
\* stores and the external actor's write may or may not happen.
WorkerStep ==
    \/ Push
    \/ Deliver
    \/ Callback
    \/ Connect
    \/ PreCheck
    \/ SetRunning
    \/ ReportLoading
    \/ Fetch
    \/ ReportPreparing
    \/ EpochProbe
    \/ EpochRun
    \/ EpochReport
    \/ TrainFinish
    \/ ReportSaving
    \/ SaveModel
    \/ CreateRecord
    \/ SetCompleted
    \/ Except
    \/ Finally
    \/ Ack
    \/ Nack

\* Jobs that end in the trainer without an epoch, and jobs of one epoch
LiveEpochs == {0, 1}

\* A queue of well-formed job messages
InitLive ==
    /\ InitWith(MaxMsgs, MaxQueueEpochs)
    /\ \A i \in DOMAIN queue :
          /\ ~MessageRaises(queue[i])
          /\ ConfigEpochs(DictGet(queue[i].obj, "config", <<>>)) \in LiveEpochs

\* The worker never stops while it has a step to take
SpecLive == InitLive /\ [][Next]_vars /\ WF_vars(WorkerStep)

\* A worker that stays idle, for the specifications of single functions
vars_worker == <<qvars, pc, conn, dbvars, faults, drawings, trainvars, exc, histvars>>

\* ------------------------------------------------------------ quality.py
\* One call of score_drawing, under any of the interpreters
InitScore ==
    /\ WorkerInit(0, 0)
    /\ drawingsDb = MinTrainingData
    /\ split_call = NULL
    /\ fetch_call = NULL
    /\ score_call \in {[stroke_data |-> d, result |-> NULL] : d \in ScoreInputs}

\* score_drawing(stroke_data): QualityScorer(stroke_data).calculate_score()
ScoreDrawing ==
    /\ score_call # NULL
    /\ score_call.result = NULL
    /\ score_call' = [score_call EXCEPT
                          !.result = CalculateScore(score_call.stroke_data, python.compensated)]
    /\ UNCHANGED <<vars_worker, split_call, fetch_call, python>>

NextScore == ScoreDrawing

SpecScore == InitScore /\ [][NextScore]_vars

\* ----------------------------------------------------- fetch_training_data
\* One call of fetch_training_data on a table of drawings.  The function
\* neither lowers a text nor sums doubles: one interpreter stands for all.
InitFetch ==
    /\ WorkerInit(0, 0)
    /\ drawingsDb = MinTrainingData
    /\ python.unicode = 14
    /\ split_call = NULL
    /\ fetch_call \in {[table_before |-> t, table |-> t, config |-> c, result |-> NULL] :
                          t \in DrawingTables(MaxRows), c \in FetchConfigs}
    /\ score_call = NULL

\* cur.execute(query, params); cur.fetchall(): a SELECT, the table stays
FetchCall ==
    /\ fetch_call # NULL
    /\ fetch_call.result = NULL
    /\ \E rows \in FetchTrainingData(fetch_call.table, fetch_call.config) :
          fetch_call' = [fetch_call EXCEPT !.result = [rows |-> rows]]
    /\ UNCHANGED <<vars_worker, split_call, score_call, python>>

NextFetch == FetchCall

SpecFetch == InitFetch /\ [][NextFetch]_vars

\* ------------------------------------------------------ shuffle and split
\* process_job, lines 432-436, on a list of n candidates and the draws the
\* random generator will give to the shuffle
InitSplit ==
    /\ WorkerInit(0, 0)
    /\ drawingsDb = MinTrainingData
    /\ python.unicode = 14
    /\ \E n \in SplitSizes : \E d \in Draws(n) :
          split_call = [stage |-> "fetched", drawings |-> Candidates(n), draws |-> d,
                        train_drawings |-> <<>>, val_drawings |-> <<>>]
    /\ fetch_call = NULL
    /\ score_call = NULL

\* np.random.shuffle(drawings), with the draws the generator gives; the
\* draws are used up
Shuffle ==
    /\ split_call # NULL
    /\ split_call.stage = "fetched"
    /\ split_call' = [split_call EXCEPT
                        !.stage = "shuffled",
                        !.drawings = Shuffled(split_call.drawings, split_call.draws),
                        !.draws = <<>>]
    /\ UNCHANGED <<vars_worker, fetch_call, score_call, python>>

\* split_idx = int(len(drawings) * 0.8); the two slices
Split ==
    /\ split_call # NULL
    /\ split_call.stage = "shuffled"
    /\ LET split_idx == SplitIdx(Len(split_call.drawings))
       IN  split_call' = [split_call EXCEPT
                            !.stage = "split",
                            !.train_drawings = SliceTo(split_call.drawings, split_idx),
                            !.val_drawings = SliceFrom(split_call.drawings, split_idx)]
    /\ UNCHANGED <<vars_worker, fetch_call, score_call, python>>

NextSplit ==
    \/ Shuffle
    \/ Split

SpecSplit == InitSplit /\ [][NextSplit]_vars

\* =================================================================== claims
Last(q) == q[Len(q)]
InDelivery == inflight # NULL
StatusWrites == SelectSeq(wlog, LAMBDA w : w.store_name = "status")
WroteStatus(status) == \E i \in DOMAIN wlog : wlog[i].status = [written |-> status]

\* C1: the stored status of a job only moves forward along
\* pending -> running -> {completed, failed, cancelled}; once it is completed,
\* failed or cancelled no later step sets it back to running.
Rank(status) == IF status = "pending" THEN 0 ELSE IF status = "running" THEN 1 ELSE 2
C1_StatusMonotonic ==
    [][\A j \in Jobs :
          /\ Rank(store'[j].status) >= Rank(store[j].status)
          /\ (store[j].status \in Terminal => store'[j].status # "running")]_vars

\* C2: cancelled is sticky: once the stored status of a job is cancelled, no
\* step of the worker overwrites it with running, completed or failed.
C2_CancelledSticky ==
    [][\A j \in Jobs :
          store[j].status = "cancelled" => store'[j].status = "cancelled"]_vars

\* C3: once an epoch probe of a delivery has read cancelled, that delivery
\* starts no further epoch, writes no status and no progress snapshot, stores
\* no model blob and no registry record, and the stored status stays cancelled.
C3_ProbeCancelledStops ==
    [][(seen_probe /\ InDelivery) =>
          /\ pc' \notin {"epoch_run", "epoch_report", "report_saving", "save_model",
                         "create_record", "set_completed", "ack"}
          /\ history' = history
          /\ wlog' = wlog
          /\ artifacts' = artifacts
          /\ registry' = registry
          /\ store' = store
          /\ store[job_id].status = "cancelled"]_vars

\* C3 witness: epoch 1 ran, the probe before epoch 2 read cancelled, the
\* message has been settled.
C3_Witness ==
    /\ seen_probe
    /\ pc = "idle"
    /\ Len(history.val_acc) = 1
    /\ Len(settled) = 1
    /\ store[settled[1].message.obj.jobId].status = "cancelled"

\* C4: a delivery whose pre-check reads cancelled writes nothing to the status
\* store, the artifact store and the model registry, and its message is acked.
PrecheckReadCancelled == seen_precheck = [status |-> "cancelled"]
C4_PrecheckCancelledNoWrites ==
    [][(PrecheckReadCancelled /\ InDelivery) =>
          /\ store' = store
          /\ artifacts' = artifacts
          /\ registry' = registry
          /\ wlog' = <<>>
          /\ pc' \in {"finally", "ack", "idle"}
          /\ (pc' = "idle" => /\ Last(settled').kind = "ack"
                              /\ Last(settled').message = inflight)]_vars

\* C4 witness: the job was cancelled, its message was delivered and acked.
C4_Witness ==
    /\ PrecheckReadCancelled
    /\ pc = "idle"
    /\ settled # <<>>
    /\ Last(settled).kind = "ack"
    /\ wlog = <<>>

\* The job of the current delivery or, between deliveries, of the last one
CurJob == IF inflight # NULL THEN job_id ELSE Last(settled).message.obj.jobId
HandlerDone == pc \in {"finally", "nack", "idle"}

\* C5: completed is written only after all epochs have finished, the model
\* blob has been stored and the registry record has been created, in this
\* order; when storing the blob fails, failed is written and completed is not.
C5_CompletedOnlyAfterDurable ==
    /\ (InDelivery /\ WroteStatus("completed")) =>
          /\ Len(history.train_loss) = epochs
          /\ \E a, r \in DOMAIN wlog :
                /\ wlog[a].store_name = "artifact"
                /\ wlog[r].store_name = "registry"
                /\ a < r
                /\ wlog[Len(wlog)].status = [written |-> "completed"]
                /\ r < Len(wlog)
    /\ (raised # NULL /\ raised.at = "save_model" /\ HandlerDone) =>
          /\ WroteStatus("failed")
          /\ ~WroteStatus("completed")

\* C6: when a step of process_job raises an error other than the probe's
\* cancellation, the handler writes failed with the text of that error, and
\* the job is not left in status running.
C6_ErrorsWriteFailed ==
    (raised # NULL /\ raised.at # "probe" /\ HandlerDone) =>
        /\ wlog # <<>>
        /\ Last(wlog) = StatusWrite("failed", NULL, NULL, raised.exc)
        /\ store[CurJob].status # "running"

\* C7: every delivered message is settled exactly once and never requeued; it
\* is acked exactly when process_job returned normally, which is when the job
\* completed or was found cancelled at the pre-check, and nacked otherwise.
SettledMessages == [i \in 1..Len(settled) |-> settled[i].message]
ReturnedNormally ==
    \/ PrecheckReadCancelled
    \/ (wlog # <<>> /\ Last(wlog).status = [written |-> "completed"])
C7_SettledOnceNeverRequeued ==
    /\ SettledMessages \o (IF inflight # NULL THEN <<inflight>> ELSE <<>>)
          \o prefetched \o queue = published
    /\ \A i \in DOMAIN settled : settled[i].kind \in {"ack", "nack"} /\ ~settled[i].requeue
    /\ (pc = "idle" /\ outcome # "none") =>
          (Last(settled).kind = "ack" <=> outcome = "returned")
    /\ (outcome = "returned") => ReturnedNormally
    /\ (outcome \in {"raised", "not_called"}) => ~ReturnedNormally
    /\ (pc = "ack") => exc = NULL
    /\ (pc = "nack") => (exc # NULL \/ outcome = "not_called")

\* C7 witness: two messages were delivered, one was acked and one nacked.
C7_Witness ==
    /\ pc = "idle"
    /\ Len(settled) = 2
    /\ queue = <<>>
    /\ {settled[1].kind, settled[2].kind} = {"ack", "nack"}

\* C8: fewer than 10 candidates: the job fails with 'Not enough training
\* data: <n> drawings', no epoch runs and no snapshot of phase preparing_data
\* or training is written; the stored status is failed once the handler's
\* write has been made.  10 candidates pass the check.
HasPrefix(text, prefix) ==
    Len(text) >= Len(prefix) /\ SubSeq(text, 1, Len(prefix)) = prefix
PastSizeCheck == {"report_preparing", "epoch_probe", "epoch_run", "epoch_report",
                  "report_saving", "save_model", "create_record", "set_completed"}
C8_SizeCheck ==
    /\ (raised # NULL /\ raised.at = "size_check") =>
          /\ drawings < MinTrainingData
          /\ raised.exc = Str(NotEnoughText(drawings))
          /\ HasPrefix(raised.exc.text, NotEnoughPrefix)
          /\ \A i \in DOMAIN wlog :
                wlog[i].progress # NULL =>
                    wlog[i].progress.phase \notin {"preparing_data", "training"}
          /\ history = EmptyHistory
          /\ epoch = 0
          /\ (HandlerDone /\ exc = raised.exc) =>
                /\ store[CurJob].status = "failed"
                /\ store[CurJob].error_message = raised.exc
    /\ (InDelivery /\ drawings = drawingsDb /\ drawings < MinTrainingData) =>
          (raised # NULL /\ raised.at = "size_check")
    /\ (pc \in PastSizeCheck) => drawings >= MinTrainingData

\* C8 witness: 9 candidates, the job has ended failed with the text.
C8_Witness ==
    /\ pc = "idle"
    /\ raised # NULL
    /\ raised.at = "size_check"
    /\ drawings = MinTrainingData - 1
    /\ store[CurJob].status = "failed"
    /\ store[CurJob].error_message = Str(NotEnoughText(MinTrainingData - 1))

\* C9: the model persisted by a run that finished all its epochs is the
\* weights of the first epoch that attains the maximum validation accuracy.
SeqMax(q) == CHOOSE m \in {q[i] : i \in DOMAIN q} : \A i \in DOMAIN q : q[i] <= m
FirstMaxEpoch(accs) ==
    CHOOSE k \in DOMAIN accs :
        /\ accs[k] = SeqMax(accs)
        /\ \A i \in 1..(k - 1) : accs[i] < accs[k]
C9_PersistsFirstBestEpoch ==
    (pc \in {"create_record", "set_completed"}) =>
        \A a \in artifacts :
            a.object_name = ObjectName(job_id) =>
                a.blob = [weights_of_epoch |-> FirstMaxEpoch(history.val_acc)]

\* C10: a run of N >= 1 epochs that completes has made exactly these writes
\* to the status store: running/initializing, loading_data, preparing_data,
\* training with current_epoch 1..N, saving_model, completed with
\* metrics.history.train_loss of length N.
Shape(w) == <<w.status,
              IF w.progress = NULL THEN NULL ELSE [phase |-> w.progress.phase],
              IF w.progress = NULL THEN NULL ELSE [current_epoch |-> w.progress.current_epoch]>>
Snapshot(phase, e) == <<NULL, [phase |-> phase], [current_epoch |-> e]>>
ExpectedWrites(n) ==
    <<  <<[written |-> "running"], [phase |-> "initializing"], [current_epoch |-> 0]>>,
        Snapshot("loading_data", 0),
        Snapshot("preparing_data", 0) >>
    \o [k \in 1..n |-> Snapshot("training", k)]
    \o << Snapshot("saving_model", n),
          <<[written |-> "completed"], NULL, NULL>> >>
C10_WriteSequence ==
    (InDelivery /\ WroteStatus("completed")) =>
        /\ epochs >= 1
        /\ [i \in 1..Len(StatusWrites) |-> Shape(StatusWrites[i])] = ExpectedWrites(epochs)
        /\ Len(Last(StatusWrites).metrics.history.train_loss) = epochs
        /\ \A i \in DOMAIN StatusWrites :
              StatusWrites[i].progress # NULL =>
                  StatusWrites[i].progress.total_epochs = epochs

\* C10 witness: a run of 2 epochs has completed and is about to be acked.
C10_Witness ==
    /\ pc = "ack"
    /\ epochs = 2
    /\ WroteStatus("completed")
    /\ store[job_id].status = "completed"
    /\ Len(store[job_id].metrics.json.history.train_loss) = 2
\* Number of positions of a list that hold x
Occurrences(list, x) == Cardinality({i \in DOMAIN list : list[i] = x})

\* C11: for every candidate list of n >= 10 entries the split yields
\* floor(0.8 n) training and n - floor(0.8 n) validation entries (80 and 20
\* for n = 100); the two parts are disjoint and together hold every candidate
\* exactly once.
C11_SplitPartition ==
    (split_call # NULL /\ split_call.stage = "split") =>
        LET n == Len(split_call.drawings)
            train == split_call.train_drawings
            val == split_call.val_drawings
        IN  /\ n >= 10
            /\ 10 * Len(train) <= 8 * n
            /\ 8 * n < 10 * (Len(train) + 1)
            /\ Len(val) = n - Len(train)
            /\ (n = 100 => Len(train) = 80 /\ Len(val) = 20)
            /\ \A i \in DOMAIN train : \A j \in DOMAIN val : train[i] # val[j]
            /\ \A c \in 1..n : Occurrences(train \o val, c) = 1

\* C11 witness: a shuffled list of 100 candidates has been split
C11_Witness ==
    /\ split_call # NULL
    /\ split_call.stage = "split"
    /\ Len(split_call.drawings) = 100
    /\ split_call.drawings # Candidates(100)
    /\ Len(split_call.train_drawings) = 80
    /\ Len(split_call.val_drawings) = 20

\* C12: no path of process_job writes status cancelled: no write of a
\* delivery carries it, and a step that turns a stored status into cancelled
\* is not a step of the worker (the worker stays where it is and logs no
\* write).
C12_WorkerNeverWritesCancelled ==
    [][/\ \A i \in DOMAIN wlog' : wlog'[i].status # [written |-> "cancelled"]
       /\ \A j \in Jobs :
             (store'[j].status = "cancelled" /\ store[j].status # "cancelled") =>
                 /\ pc' = pc
                 /\ wlog' = wlog
                 /\ inflight' = inflight]_vars

\* C12 witness: the handler has dealt with an error whose text holds
\* 'cancelled' while the stored status is cancelled, and wrote no status.
C12_Witness ==
    /\ InDelivery
    /\ pc = "finally"
    /\ raised # NULL
    /\ IsCancellation(raised.exc.text)
    /\ store[job_id].status = "cancelled"
    /\ WroteStatus("running")
    /\ ~WroteStatus("failed")

\* C13: a delivery whose processing ended without a running write is one
\* whose pre-check read cancelled, and a failed or completed write of a
\* delivery comes after that delivery's running write.
C13_RunningBeforeTerminal ==
    /\ (InDelivery /\ (WroteStatus("failed") \/ WroteStatus("completed"))) =>
          wlog[1].status = [written |-> "running"]
    /\ (InDelivery /\ pc \in {"ack", "nack"} /\ outcome # "not_called"
           /\ ~WroteStatus("running")) => PrecheckReadCancelled

\* Every published message has been settled and the worker waits for more
AllSettled ==
    /\ pc = "idle"
    /\ inflight = NULL
    /\ prefetched = <<>>
    /\ queue = <<>>
    /\ Len(settled) = Len(published)

\* C14: a delivery that failed with an error does not end the worker: its
\* message is nacked, the worker is back waiting for messages, and every
\* message published to the queue is eventually delivered and settled.
C14_FailureNotFatal ==
    /\ [][(InDelivery /\ exc # NULL /\ pc = "nack" /\ pc' # pc) =>
             /\ pc' = "idle"
             /\ Last(settled').kind = "nack"
             /\ Last(settled').message = inflight]_vars
    /\ ((InDelivery /\ exc # NULL) ~> AllSettled)

\* C14 witness: the first delivery failed and was nacked, a later message
\* has been delivered and settled.
C14_Witness ==
    /\ AllSettled
    /\ Len(settled) = 2
    /\ settled[1].kind = "nack"
    /\ ~MessageRaises(settled[1].message)
    /\ store[settled[1].message.obj.jobId].status = "failed"

\* C15: at every moment at most one delivered message is unsettled, the
\* worker is inside callback exactly while that message is the one it works
\* on, and callback is entered only when every earlier delivery is settled.
C15_OneInFlight ==
    /\ Unsettled <= 1
    /\ (pc # "idle" <=> inflight # NULL)
    /\ (inflight # NULL => prefetched = <<>>)
    /\ (pc = "callback" => Len(settled) + 1 + Len(queue) = Len(published))

\* C15 witness: the second message is in callback, the first one is settled.
C15_Witness ==
    /\ pc = "callback"
    /\ Len(settled) = 1
    /\ Unsettled = 1

\* C16: a delivery of a message that is not JSON or has no jobId never
\* connects to the database, reads no status, writes nothing to the status
\* store, the artifact store and the registry, never enters process_job, and
\* ends with a nack that does not requeue.
Malformed ==
    /\ InDelivery
    /\ (inflight.valid_json => "jobId" \notin DOMAIN inflight.obj)
C16_MalformedRejected ==
    [][Malformed =>
          /\ conn' = "none"
          /\ seen_precheck' = NULL
          /\ probes' = 0
          /\ wlog' = <<>>
          /\ (store' = store \/ pc' = pc)
          /\ artifacts' = artifacts
          /\ registry' = registry
          /\ pc' \in {"callback", "nack", "idle"}
          /\ outcome' \in {"none", "not_called"}
          /\ (pc' = "idle" => /\ Last(settled').kind = "nack"
                              /\ Last(settled').requeue = FALSE
                              /\ Last(settled').message = inflight
                              /\ queue' = queue
                              /\ outcome' = "not_called")]_vars

\* C16 witness: a message without jobId has been delivered and nacked.
C16_Witness ==
    /\ pc = "idle"
    /\ settled # <<>>
    /\ Last(settled).message = NoJobIdMessage
    /\ Last(settled).kind = "nack"
    /\ outcome = "not_called"
    /\ conn = "none"

\* C17: in every state of the status store a row has metrics or model_path
\* only while its status is completed, and error_message only while its
\* status is failed.
C17_ResultFieldsMatchStatus ==
    \A j \in Jobs :
        /\ (store[j].metrics # NULL \/ store[j].model_path # NULL) =>
               store[j].status = "completed"
        /\ store[j].error_message # NULL => store[j].status = "failed"

\* The worker is in the epoch loop and the stored status of its job reads
\* cancelled
JobCancelled ==
    /\ InDelivery
    /\ pc \in {"epoch_probe", "epoch_run", "epoch_report"}
    /\ store[job_id].status = "cancelled"
ErrorRaised == pc' = "except" /\ faults' = faults + 1

\* C20: the probe is evaluated once before each epoch and at no other moment.
\* When cancelled is written while epoch k of N is in progress, the epoch is
\* computed to its end and its progress snapshot is written (unless one of
\* the two raises an error), and the probe before epoch k+1 stops the
\* training: epoch k+1 is not started.
C20_ProbeBetweenEpochs ==
    [][/\ (InDelivery /\ probes' # probes) =>
             /\ pc = "epoch_probe"
             /\ probes = epoch
             /\ probes' = epoch + 1
       /\ (pc' = "epoch_run" /\ pc # "epoch_run") =>
             /\ probes' = epoch + 1
             /\ store[job_id].status # "cancelled"
       /\ (JobCancelled /\ pc = "epoch_run" /\ pc' # pc) =>
             \/ /\ pc' = "epoch_report"
                /\ Len(history'.val_acc) = epoch + 1
                /\ probes' = probes
             \/ ErrorRaised
       /\ (JobCancelled /\ pc = "epoch_report" /\ pc' # pc) =>
             \/ /\ pc' = "epoch_probe"
                /\ Len(wlog') = Len(wlog) + 1
                /\ Last(wlog').progress.current_epoch = epoch + 1
                /\ store'[job_id].progress = JsonDumps(Last(wlog').progress)
                /\ epoch' = epoch + 1
                /\ probes' = probes
             \/ ErrorRaised
       /\ (JobCancelled /\ pc = "epoch_probe" /\ epoch < epochs /\ pc' # pc) =>
             /\ pc' = "except"
             /\ history' = history]_vars

\* C20 witness: cancelled was written while epoch 1 of at least 2 was in
\* progress; the epoch ran to its end, its snapshot was written, and the
\* probe before epoch 2 ended the training.
C20_Witness ==
    /\ InDelivery
    /\ pc = "except"
    /\ seen_probe
    /\ probes = 2
    /\ epochs >= 2
    /\ Len(history.val_acc) = 1
    /\ Last(wlog).progress # NULL
    /\ Last(wlog).progress.current_epoch = 1

\* The records of a table that are not flagged and, when a minimum quality
\* score is supplied, have no quality score below it
EligibleIds(table, cfg) ==
    {d.id : d \in {x \in table :
        /\ ~x.is_flagged
        /\ ("min_quality_score" \in DOMAIN cfg /\ cfg.min_quality_score # NULL) =>
              (x.quality_score = NULL \/ x.quality_score.num >= cfg.min_quality_score.num)}}
CapSupplied(cfg) == "max_samples" \in DOMAIN cfg /\ cfg.max_samples # NULL
Min(a, b) == IF a < b THEN a ELSE b

\* C18: fetch_training_data returns exactly the eligible records when no
\* sample cap is supplied, a subset of them of size min(m, number eligible)
\* when a cap m is supplied, and leaves the table as it was.
C18_FetchEligible ==
    (fetch_call # NULL /\ fetch_call.result # NULL) =>
        LET eligible == EligibleIds(fetch_call.table_before, fetch_call.config)
            returned == {r.id : r \in fetch_call.result.rows}
        IN  /\ Cardinality(returned) = Cardinality(fetch_call.result.rows)
            /\ (~CapSupplied(fetch_call.config) => returned = eligible)
            /\ (CapSupplied(fetch_call.config) =>
                   /\ returned \subseteq eligible
                   /\ Cardinality(returned) =
                         Min(fetch_call.config.max_samples.num, Cardinality(eligible)))
            /\ fetch_call.table = fetch_call.table_before

\* C19: calculate_score returns a score between 0 and 100, passed is true
\* exactly when the reported score is at least 50, the recommendation is
\* 'Exclude from training' exactly when passed is false and 'Include in
\* training' exactly when the reported score is at least 70.
C19_ScorePassedRecommendation ==
    (score_call # NULL /\ score_call.result # NULL) =>
        LET r == score_call.result
        IN  /\ 0 <= r.score.tenths /\ r.score.tenths <= 1000
            /\ (r.passed <=> r.score.tenths >= 500)
            /\ (r.recommendation = "Exclude from training" <=> ~r.passed)
            /\ (r.recommendation = "Include in training" <=> r.score.tenths >= 700)


\* Epochs whose training and validation pass this delivery has gone through:
\* each one is followed by its 'training' snapshot.
EpochsRun ==
    Cardinality({i \in DOMAIN wlog :
                    wlog[i].progress # NULL /\ wlog[i].progress.phase = "training"})

\* C21: when a run writes completed, the accuracy in the stored metrics and
\* in the registry record the run created is the maximum of
\* metrics.history.val_acc, and train_loss, val_loss and val_acc each hold
\* exactly one entry per epoch the run went through.
C21_AccuracyIsMaxOfHistory ==
    [][(pc = "set_completed" /\ pc' = "finally") =>
          LET m == store'[job_id].metrics.json
              rec == Last(registry)
          IN  /\ store'[job_id].status = "completed"
              /\ m.accuracy = SeqMax(m.history.val_acc)
              /\ rec.training_job_id = job_id
              /\ rec.accuracy = SeqMax(m.history.val_acc)
              /\ Len(m.history.train_loss) = EpochsRun
              /\ Len(m.history.val_loss) = EpochsRun
              /\ Len(m.history.val_acc) = EpochsRun
              /\ EpochsRun = epochs]_vars

\* C21 witness: a run of three epochs has completed; the second epoch had
\* the highest validation accuracy, and that is the stored accuracy.
C21_Witness ==
    /\ pc = "finally"
    /\ exc = NULL
    /\ store[job_id].status = "completed"
    /\ store[job_id].metrics # NULL
    /\ EpochsRun = 3
    /\ Len(history.val_acc) = 3
    /\ history.val_acc[2] > history.val_acc[1]
    /\ history.val_acc[2] > history.val_acc[3]
    /\ store[job_id].metrics.json.accuracy = history.val_acc[2]
    /\ Last(registry).accuracy = history.val_acc[2]


\* callback has been handed a message of pending job j that asks for at
\* least one epoch, and the database holds enough drawings
DeliveredPending(j) ==
    /\ pc = "callback"
    /\ ~Malformed
    /\ job_id = j
    /\ store[j].status = "pending"
    /\ ~(drawingsDb < MinTrainingData)
    /\ epochs >= 1

\* Job j is completed, with one blob in the bucket and one row in table
\* models, and the last message settled was an ack of a message of j
CompletedAndAcked(j) ==
    /\ store[j].status = "completed"
    /\ Cardinality({a \in artifacts : a.object_name = ObjectName(j)}) = 1
    /\ Cardinality({i \in DOMAIN registry : registry[i].training_job_id = j}) = 1
    /\ settled # <<>>
    /\ Last(settled).kind = "ack"
    /\ Last(settled).message.obj.jobId = j
    /\ pc = "idle"

\* A store or the trainer has raised in the delivery at hand
FaultRaised == exc # NULL /\ exc.text \in FaultTexts

\* C22: under fairness of the worker's steps, a delivery for a pending job
\* with at least 10 eligible drawings and epochs >= 1 leads to the job being
\* completed with exactly one model blob and one registry record and the
\* message acked, unless a store or the trainer raises or the job is
\* cancelled from outside on the way.
C22_PendingJobCompletes ==
    \A j \in Jobs :
        DeliveredPending(j)
            ~> (CompletedAndAcked(j) \/ FaultRaised \/ store[j].status = "cancelled")

\* C22 witness: the job was delivered once, no call raised, and the job is
\* completed, stored once and acked.
C22_Witness ==
    /\ CompletedAndAcked("j1")
    /\ faults = 0
    /\ Len(settled) = 1
    /\ EpochsRun = 1


\* C23: whenever callback is about to settle the message, or has settled it,
\* the database connection process_job opened for the delivery, if any, is
\* closed.
C23_ConnectionClosedBeforeSettle ==
    (pc \in {"ack", "nack", "idle"}) => conn # "open"


\* callback is working on a message of a job whose config sets epochs to 0
ZeroEpochDelivery == InDelivery /\ ~Malformed /\ epochs = 0

\* C24 as stated: during a delivery of a job with epochs 0 the job is never
\* completed, no epoch is probed or run, nothing is stored in the bucket or
\* in table models, and the message is settled by a nack with the job in
\* status failed (the last part is asked only of runs in which no store
\* call has raised).
C24_ZeroEpochsFailedAndNacked ==
    [][ZeroEpochDelivery =>
          /\ store'[job_id].status # "completed"
          /\ probes' = 0
          /\ EpochsRun' = 0
          /\ artifacts' = artifacts
          /\ registry' = registry
          /\ (settled' # settled /\ faults = 0 =>
                 /\ Last(settled').kind = "nack"
                 /\ store'[job_id].status = "failed")]_vars

\* C24 amended: during a delivery of a job with epochs 0 the job is never
\* completed, no epoch is probed or run, and nothing is stored in the bucket
\* or in table models.  The message is acked only when the pre-check read
\* cancelled (and then nothing was written); otherwise it is nacked without
\* requeue.  An error raised inside the try block (IndexError, the
\* not-enough-data error, an error of a store) whose text does not hold
\* 'cancelled' leaves the job in status failed with that error's text,
\* unless the failed write itself raised; an error whose text holds
\* 'cancelled' is nacked without a failed write; an error raised before the
\* try block is nacked with nothing written at all.
C24_ZeroEpochsNeverCompletes ==
    [][ZeroEpochDelivery =>
          /\ store'[job_id].status # "completed"
          /\ probes' = 0
          /\ EpochsRun' = 0
          /\ history' = EmptyHistory
          /\ artifacts' = artifacts
          /\ registry' = registry
          /\ \A a \in artifacts' : a.object_name # ObjectName(job_id)
          /\ \A i \in DOMAIN registry' : registry'[i].training_job_id # job_id
          /\ (pc' = "ack" => PrecheckReadCancelled' /\ wlog' = <<>>)
          /\ (pc' = "nack" => ~PrecheckReadCancelled' /\ exc' # NULL)
          /\ (pc' = "nack" /\ raised' = NULL =>
                 /\ exc'.text \in FaultTexts
                 /\ wlog' = <<>>)
          /\ (pc' = "nack" /\ raised' # NULL =>
                 /\ raised'.exc.text \in {IndexErrorText, NotEnoughText(drawings')} \cup FaultTexts
                 /\ IF IsCancellation(raised'.exc.text)
                    THEN /\ exc' = raised'.exc
                         /\ ~WroteStatus("failed")'
                    ELSE \/ /\ exc' = raised'.exc
                            /\ store'[job_id].status = "failed"
                            /\ store'[job_id].error_message = exc'
                         \/ /\ exc'.text \in FaultTexts
                            /\ ~WroteStatus("failed")')
          /\ (settled' # settled =>
                 /\ Last(settled').message = inflight
                 /\ Last(settled').kind = (IF pc = "ack" THEN "ack" ELSE "nack")
                 /\ Last(settled').requeue = FALSE)]_vars

\* C24 witness: a job with epochs 0 and enough drawings went through the
\* empty loop, the metrics raised IndexError, and the message was nacked
\* with the job failed and nothing stored.
C24_Witness ==
    /\ pc = "idle"
    /\ Len(settled) = 1
    /\ settled[1].message = JobMessage("j1", 0)
    /\ settled[1].kind = "nack"
    /\ drawings = MinTrainingData
    /\ raised # NULL
    /\ raised.at = "metrics"
    /\ store["j1"].status = "failed"
    /\ store["j1"].error_message = Str(IndexErrorText)
    /\ artifacts = {}
    /\ registry = <<>>

====
